---- MODULE Spec2Model ----
(***************************************************************************)
(* Incremental ingestion of utility time series (octopus2adls): the cursor *)
(* store (adlsclient/state.py), the partitioned writer                     *)
(* (adlsclient/writer.py) and the timer-triggered scheduler                *)
(* (functions/scheduler/__init__.py).                                      *)
(*                                                                         *)
(* Instants are integers: seconds since 1970-01-01T00:00:00Z.              *)
(***************************************************************************)
EXTENDS Integers, Sequences, FiniteSets, TLC

----------------------------------------------------------------------------
(* Time *)

Hour == 60 * 60
Day == 24 * Hour

\* dt.datetime(2015, 1, 1, tzinfo=dt.timezone.utc): day 16436 of the epoch
earliest_allowed == 16436 * Day

\* the calendar date (days since the epoch) of an instant (.date())
DateOf(t) == t \div Day

\* last.replace(hour=0, minute=0, second=0, microsecond=0)
TruncToDate(t) == (t \div Day) * Day

Max(a, b) == IF a >= b THEN a ELSE b

----------------------------------------------------------------------------
(* Python values of the cursor store *)

\* A dt.datetime: kind "aware" (t is the UTC instant), kind "naive" (t is the
\* wall clock reading, no tzinfo), or None.
None == [kind |-> "none", t |-> 0]
Aware(t) == [kind |-> "aware", t |-> t]
Naive(t) == [kind |-> "naive", t |-> t]

\* A string held under a key of the cursor document, by what it parses to:
\*   fmt "Z"      "2024-01-01T01:00:00Z"        wall clock + Z suffix
\*   fmt "offset" "2024-01-01T02:00:00+01:00"   wall clock + explicit offset
\*   fmt "naive"  "2024-01-01T01:00:00"         wall clock, no offset
\*   fmt "bad"    not an ISO-8601 timestamp
\*   fmt "absent" the key is not in the document
Absent == [fmt |-> "absent", wall |-> 0, off |-> 0]
StrZ(t) == [fmt |-> "Z", wall |-> t, off |-> 0]
StrOffset(wall, off) == [fmt |-> "offset", wall |-> wall, off |-> off]
StrNaive(t) == [fmt |-> "naive", wall |-> t, off |-> 0]
StrBad == [fmt |-> "bad", wall |-> 0, off |-> 0]

\* The blob state/last_interval.json of one container: it does not exist
\* ("missing"), holds bytes that are not a JSON object ("corrupt"), or holds a
\* flat mapping from stream key to string ("doc").
\* Stream keys are f"{mpan_mprn}:{serial}" (consumption container) and
\* f"{device_id}:{zone_id}" (heating container); s1 precedes s2 in the
\* configured order.
StreamKeys == {"s1", "s2"}
EmptyMap == [k \in StreamKeys |-> Absent]
MissingBlob == [kind |-> "missing", map |-> EmptyMap]
CorruptBlob == [kind |-> "corrupt", map |-> EmptyMap]
DocBlob(m) == [kind |-> "doc", map |-> m]

----------------------------------------------------------------------------
(* adlsclient/state.py: StateStore *)

\* dt.datetime.fromisoformat(norm) and the has_tz branch of get_last_interval:
\* a value with Z or an explicit offset is converted to UTC, a value without
\* offset is returned naive, as stored.
ParseStoredMutAssumeUTC(val) ==
    IF val.fmt \in {"Z", "offset"} THEN Aware(val.wall - val.off)
    ELSE Aware(val.wall)

ParseStored(val) ==
    IF val.fmt \in {"Z", "offset"} THEN Aware(val.wall - val.off)
    ELSE Naive(val.wall)

\* get_last_interval(source_key): dlOk is the outcome of download_blob().
\* Everything from the download to the parse is inside try/except Exception,
\* so the call yields [raised |-> FALSE, value |-> datetime or None].
get_last_interval_MutRaise(blob, source_key, dlOk) ==
    IF ~dlOk \/ blob.kind # "doc" THEN [raised |-> FALSE, value |-> None]
    ELSE LET val == blob.map[source_key] IN
         IF val.fmt = "absent" THEN [raised |-> FALSE, value |-> None]
         ELSE IF val.fmt = "bad" THEN [raised |-> TRUE, value |-> None]
         ELSE [raised |-> FALSE, value |-> ParseStored(val)]

get_last_interval(blob, source_key, dlOk) ==
    IF ~dlOk \/ blob.kind # "doc" THEN [raised |-> FALSE, value |-> None]
    ELSE LET val == blob.map[source_key] IN
         IF val.fmt = "absent" THEN [raised |-> FALSE, value |-> None]
         ELSE IF val.fmt = "bad" THEN [raised |-> FALSE, value |-> None]
         ELSE [raised |-> FALSE, value |-> ParseStored(val)]

\* set_last_interval, lines 60-64: the document as downloaded, or {} when the
\* download or json.loads raises.
SetDownload(blob, dlOk) ==
    IF dlOk /\ blob.kind = "doc" THEN blob.map ELSE EmptyMap

\* set_last_interval, lines 66-73: the string stored for interval_end.  A str
\* is stored as given (arg.kind = "str", arg.s the string); a naive datetime
\* as its isoformat(); an aware one converted to UTC with +00:00 written Z.
StrArg(s) == [kind |-> "str", t |-> 0, s |-> s]
DtArg(d) == [kind |-> d.kind, t |-> d.t, s |-> Absent]

StoredOf(arg) ==
    IF arg.kind = "str" THEN arg.s
    ELSE IF arg.kind = "naive" THEN StrNaive(arg.t)
    ELSE StrZ(arg.t)

\* set_last_interval, line 74: j[source_key] = stored
SetKeyMutOnly(j, source_key, stored) ==
    [EmptyMap EXCEPT ![source_key] = stored]

SetKey(j, source_key, stored) ==
    [j EXCEPT ![source_key] = stored]

\* set_last_interval, line 75: upload_blob(json.dumps(j), overwrite=True)
\* replaces the whole blob by the serialised j.
UploadBlobMutUpdate(blob, j) ==
    DocBlob([k \in StreamKeys |-> IF j[k] # Absent THEN j[k] ELSE blob.map[k]])

UploadBlob(blob, j) ==
    DocBlob(j)

\* set_last_interval as one call of a single caller: upOk is the outcome of
\* upload_blob; when it raises the call raises and the blob is unchanged.
set_last_interval(blob, source_key, arg, dlOk, upOk) ==
    LET j == SetKey(SetDownload(blob, dlOk), source_key, StoredOf(arg)) IN
    [raised |-> ~upOk,
     blob |-> IF upOk THEN UploadBlob(blob, j) ELSE blob]

----------------------------------------------------------------------------
(* Vendor records and the data the model draws them from *)

HalfHour == 30 * 60

\* 2024-01-01 and 2024-01-02 as calendar dates (days since the epoch)
D0 == DateOf(1704067200)
D1 == D0 + 1
Dates == {D0, D1}

\* A vendor timestamp string, by its wall clock reading and the offset its
\* notation carries ("...Z" is off = 0 with suffix Z).
VendorTs(t, off) == [wall |-> t + off, off |-> off]

\* _parse (scheduler lines 153-161), pd.to_datetime(..., utc=True): the UTC
\* instant of a vendor timestamp string.
ParseTs(ts) == ts.wall - ts.off

\* None where a timestamp string is expected: entry.get("from") or
\* entry.get("timestamp") of an entry that has no such key.
NoneTs == [wall |-> -1, off |-> 0]

\* Half-hour consumption intervals the vendor can hold for a meter:
\* interval_start 22:30, 23:00 and 23:30 of 2024-01-01; the last one ends at
\* 00:00 of 2024-01-02.
Slots == {D0 * Day + 22 * Hour + HalfHour, D0 * Day + 23 * Hour,
          D0 * Day + 23 * Hour + HalfHour}

\* Meter s2 is new: the vendor holds only the last interval for it.
SlotsOf(meter) ==
    IF meter = "s1" THEN Slots ELSE {D0 * Day + 23 * Hour + HalfHour}

ConsumptionRec(t) ==
    [interval_start |-> VendorTs(t, 0), interval_end |-> VendorTs(t + HalfHour, 0)]

\* The wall clock between two reads of it (dt.datetime.now, utcnow): it has
\* not moved, or it has advanced by ClockTick seconds.
ClockTick == 3
ClockReads(t) == {t, t + ClockTick}

\* Instants at which the timer fires: 2024-01-01T23:40Z and 2024-01-02T01:10Z.
NowChoices == {D0 * Day + 23 * Hour + 40 * 60, D1 * Day + Hour + 10 * 60}

\* The elements of a set of instants in ascending order ('order_by': 'period').
RECURSIVE SortedSeq(_)
SortedSeq(S) ==
    IF S = {} THEN <<>>
    ELSE LET m == CHOOSE x \in S : \A y \in S : x <= y
         IN  <<m>> \o SortedSeq(S \ {m})

\* The set of elements of a sequence.
Range(q) == {q[i] : i \in 1..Len(q)}

----------------------------------------------------------------------------
(* adlsclient/writer.py: DataLakeWriter.write_consumption *)

\* A row of a consumption artifact: the parsed (UTC) interval bounds.
ConsumptionRow(rec) ==
    [interval_start |-> ParseTs(rec.interval_start),
     interval_end |-> ParseTs(rec.interval_end)]

\* df.drop_duplicates(subset=[...]): the first row of each key is kept.
RECURSIVE DropDuplicates(_)
DropDuplicates(rows) ==
    IF rows = <<>> THEN <<>>
    ELSE LET init == DropDuplicates(SubSeq(rows, 1, Len(rows) - 1))
             last == rows[Len(rows)]
         IN  IF last \in Range(init) THEN init ELSE Append(init, last)

\* df['date'] = df['interval_end'].dt.date; df.groupby('date'): the dates of
\* the batch in ascending order, and the rows of one date.
PartitionDate(row) == DateOf(row.interval_end)
BatchDates(rows) == SortedSeq({PartitionDate(rows[i]) : i \in 1..Len(rows)})
GroupOf(rows, date) == SelectSeq(rows, LAMBDA r : PartitionDate(r) = date)

\* _write_parquet(path, g): upload_blob(..., overwrite=True) replaces the
\* artifact at the path by the group.
WriteParquetMutAppend(arts, path, group) ==
    [arts EXCEPT ![path] = arts[path] \o group]

WriteParquet(arts, path, group) ==
    [arts EXCEPT ![path] = group]

\* The artifacts after the uploads of the first n partition dates of a batch.
RECURSIVE WriteGroups(_, _, _, _, _)
WriteGroups(arts, container, key, rows, n) ==
    IF n = 0 THEN arts
    ELSE WriteParquet(WriteGroups(arts, container, key, rows, n - 1),
                      <<container, key, BatchDates(rows)[n]>>,
                      GroupOf(rows, BatchDates(rows)[n]))

\* write_consumption(meter, records), lines 86-124.  failAt = k > 0: the k-th
\* upload raises, after the uploads of the k-1 earlier dates; failAt = 0: no
\* upload raises.
write_consumption(arts, meter, records, failAt) ==
    IF records = <<>> THEN [raised |-> FALSE, arts |-> arts]
    ELSE LET rows == DropDuplicates([i \in 1..Len(records) |->
                                         ConsumptionRow(records[i])])
             n == Len(BatchDates(rows))
         IN  IF failAt \in 1..n
             THEN [raised |-> TRUE,
                   arts |-> WriteGroups(arts, "consumption", meter, rows, failAt - 1)]
             ELSE [raised |-> FALSE,
                   arts |-> WriteGroups(arts, "consumption", meter, rows, n)]

\* write_partitioned_data(records, path_formatter, partition_column,
\* dedup_columns), lines 36-75: the public generic write.  A record is the
\* dict its caller built: the vendor's fields as strings plus the caller's
\* partition column.
PartitionedRec(t) ==
    [consumption |-> 0, interval_start |-> VendorTs(t, 0),
     interval_end |-> VendorTs(t + HalfHour, 0), date |-> DateOf(t + HalfHour)]

\* df.drop_duplicates(subset=dedup_columns): the first row of each key is
\* kept.
RECURSIVE DropDuplicatesSubset(_, _)
DropDuplicatesSubset(rows, cols) ==
    IF rows = <<>> THEN <<>>
    ELSE LET init == DropDuplicatesSubset(SubSeq(rows, 1, Len(rows) - 1), cols)
             last == rows[Len(rows)]
         IN  IF \E i \in 1..Len(init) : \A c \in cols : init[i][c] = last[c]
             THEN init ELSE Append(init, last)

\* The caller's path_formatter: one that builds the consumption path of
\* meter s1 from the record's date, and one that returns the path of
\* 2024-01-01 for every record.
PathFormatters == {"by_date", "fixed"}
path_formatter(fmt, rec) ==
    IF fmt = "by_date" THEN <<"consumption", "s1", rec.date>>
    ELSE <<"consumption", "s1", D0>>

\* group.drop(columns=[partition_column])
DropColumn(rows, col) ==
    [i \in 1..Len(rows) |-> [c \in (DOMAIN rows[i]) \ {col} |-> rows[i][c]]]

\* Lines 65-70: the uploads of the first n groups of df.groupby(col), in
\* ascending order of the column's value; the path is the formatter's answer
\* for the first record of the group.
PartitionValues(rows, col) == SortedSeq({rows[i][col] : i \in 1..Len(rows)})
RECURSIVE WritePartitions(_, _, _, _, _)
WritePartitions(arts, rows, fmt, col, n) ==
    IF n = 0 THEN arts
    ELSE LET group == SelectSeq(rows, LAMBDA r :
                                   r[col] = PartitionValues(rows, col)[n])
         IN  WriteParquet(WritePartitions(arts, rows, fmt, col, n - 1),
                          path_formatter(fmt, group[1]),
                          DropColumn(group, col))

write_partitioned_data(arts, records, fmt, partition_column, dedup_columns) ==
    IF records = <<>> THEN arts
    ELSE LET df == IF dedup_columns # {}
                   THEN DropDuplicatesSubset(records, dedup_columns)
                   ELSE records
         IN  IF partition_column \in DOMAIN df[1]
             THEN WritePartitions(arts, df, fmt, partition_column,
                                  Len(PartitionValues(df, partition_column)))
             ELSE WriteParquet(arts, path_formatter(fmt, df[1]), df)

----------------------------------------------------------------------------
(* functions/scheduler/__init__.py: ingest_meter_consumption *)

\* dt.timedelta(minutes=30, seconds=1) and dt.timedelta(days=7)
overlap == 30 * 60 + 1
first_run_lookback == 7 * Day

\* Lines 118-136: the start of the fetch window.  Comparing a naive
\* overlap_start with the aware earliest_allowed raises TypeError.
StartTime(last_interval, now) ==
    IF last_interval.kind = "none"
    THEN [raised |-> FALSE, start |-> now - first_run_lookback]
    ELSE IF last_interval.kind = "naive"
    THEN [raised |-> TRUE, start |-> 0]
    ELSE [raised |-> FALSE,
          start |-> Max(last_interval.t - overlap, earliest_allowed)]

\* Lines 144-146 ("No new consumption data", return 0) and lines 245-252 (no
\* timestamp to store, success += 1): the pass found nothing to store and
\* returns normally, leaving the blobs as they are.
NoNewDataMutRaise(base) ==
    [base EXCEPT !.stage = "empty"]

NoNewData(base) ==
    [base EXCEPT !.raised = FALSE, !.stage = "empty"]

\* Order of two vendor timestamp strings as Python compares str: the date and
\* time characters first, then the suffix, where "+hh:mm" sorts before "Z".
TsStrLess(a, b) ==
    \/ a.wall < b.wall
    \/ a.wall = b.wall /\ a.off > 0 /\ b.off = 0
    \/ a.wall = b.wall /\ a.off > 0 /\ b.off > 0 /\ a.off < b.off

\* Line 162: max(consumption_records, key=lambda r: r['interval_start']), the
\* first record whose string is not below any other's.
LatestRecord(records) ==
    records[CHOOSE i \in 1..Len(records) :
               /\ \A k \in 1..Len(records) :
                     ~TsStrLess(records[i].interval_start, records[k].interval_start)
               /\ \A k \in 1..(i - 1) :
                     TsStrLess(records[k].interval_start, records[i].interval_start)]

\* The inputs of one pass: the outcomes of the external calls.
\*   getOk      download_blob of get_last_interval succeeded
\*   fetchOk    client.get_consumption returned (records) rather than raised
\*   failAt     see write_consumption
\*   setDlOk    download_blob of set_last_interval succeeded
\*   setUpOk    upload_blob of set_last_interval succeeded
\* The result: raised, the return value, the blobs after the pass, and what
\* the pass did (stage reached, window start, whether set was called).
ingest_meter_consumption(blob, arts, meter, now, in) ==
    LET last_interval == get_last_interval(blob, meter, in.getOk).value
        st == StartTime(last_interval, now)
        wr == write_consumption(arts, meter, in.records, in.failAt)
        latest_start == ParseTs(LatestRecord(in.records).interval_start)
        set == set_last_interval(blob, meter, DtArg(Aware(latest_start)),
                                 in.setDlOk, in.setUpOk)
        base == [raised |-> TRUE, ret |-> 0, blob |-> blob, arts |-> arts,
                 stage |-> "plan", start |-> 0, set_called |-> FALSE]
    IN  IF st.raised THEN base
        ELSE IF ~in.fetchOk
        THEN [base EXCEPT !.stage = "fetch", !.start = st.start]
        ELSE IF in.records = <<>>
        THEN [NoNewData(base) EXCEPT !.start = st.start]
        ELSE IF wr.raised
        THEN [base EXCEPT !.stage = "write", !.start = st.start, !.arts = wr.arts]
        ELSE [raised |-> set.raised, ret |-> Len(in.records), blob |-> set.blob,
              arts |-> wr.arts, stage |-> IF set.raised THEN "set" ELSE "done",
              start |-> st.start, set_called |-> TRUE]

----------------------------------------------------------------------------
(* adlsclient/writer.py: write_demand_events, write_temperature_events *)

\* Timestamps a day report can carry: 22:00 and 23:00 of 2024-01-01 and 00:30
\* of 2024-01-02.
HeatTs == {D0 * Day + 22 * Hour, D0 * Day + 23 * Hour, D1 * Day + HalfHour}

\* Device s1 reports demand events at all of them and temperatures at the
\* last two; device s2 is new and reports only at the last.
HeatTsOf(kind, device) ==
    IF device = "s1" /\ kind = "demand" THEN HeatTs
    ELSE IF device = "s1" THEN {D0 * Day + 23 * Hour, D1 * Day + HalfHour}
    ELSE {D1 * Day + HalfHour}

\* A parsed demand event or temperature record of parse_day_report: its kind
\* and its timestamp string.
HeatRec(kind, t) == [kind |-> kind, timestamp |-> VendorTs(t, 0)]

\* A row of a heating artifact: the record with its timestamp parsed to UTC.
HeatRow(rec) == [kind |-> rec.kind, timestamp |-> ParseTs(rec.timestamp)]

EventDate(row) == DateOf(row.timestamp)
EventDates(rows) == SortedSeq({EventDate(rows[i]) : i \in 1..Len(rows)})
EventsOf(rows, date) == SelectSeq(rows, LAMBDA r : EventDate(r) = date)

\* The heating artifacts after the uploads of the first n dates of a batch:
\* blob trv={trv_id}/date={date}/data.parquet of container "heating",
\* upload_blob(..., overwrite=True).
RECURSIVE WriteEventGroups(_, _, _, _)
WriteEventGroups(arts, trv_id, rows, n) ==
    IF n = 0 THEN arts
    ELSE WriteParquet(WriteEventGroups(arts, trv_id, rows, n - 1),
                      <<"heating", trv_id, EventDates(rows)[n]>>,
                      EventsOf(rows, EventDates(rows)[n]))

\* write_demand_events(trv_id, events), lines 171-193, and
\* write_temperature_events(trv_id, events), lines 195-217: the same code on
\* the same path.  failAt as in write_consumption.
\* An event whose timestamp is None becomes a row with timestamp NaT and date
\* NaT, and df.groupby('date') leaves the rows with a null key out of every
\* group: it is in no upload.
write_events(arts, trv_id, events, failAt) ==
    IF events = <<>> THEN [raised |-> FALSE, arts |-> arts]
    ELSE LET stamped == SelectSeq(events, LAMBDA e : e.timestamp # NoneTs)
             rows == [i \in 1..Len(stamped) |-> HeatRow(stamped[i])]
             n == Len(EventDates(rows))
         IN  IF failAt \in 1..n
             THEN [raised |-> TRUE,
                   arts |-> WriteEventGroups(arts, trv_id, rows, failAt - 1)]
             ELSE [raised |-> FALSE,
                   arts |-> WriteEventGroups(arts, trv_id, rows, n)]

write_demand_events(arts, trv_id, events, failAt) ==
    write_events(arts, trv_id, events, failAt)

write_temperature_events(arts, trv_id, events, failAt) ==
    write_events(arts, trv_id, events, failAt)

----------------------------------------------------------------------------
(* functions/scheduler/__init__.py: run_tado_ingestion *)

\* default_lookback = dt.timedelta(hours=1)
default_lookback == Hour

\* Lines 206-212: the start of a device's window.
DeviceStart(last, now) ==
    IF last.kind = "none" THEN Aware(now - default_lookback)
    ELSE [kind |-> last.kind, t |-> TruncToDate(last.t)]

\* Lines 233-234: the events strictly newer than last_processed.
NewerThan(events, last_processed) ==
    SelectSeq(events, LAMBDA e : ParseTs(e.timestamp) > last_processed.t)

\* Lines 240-248: the greatest timestamp of the events written.
MaxTs(events) ==
    CHOOSE t \in {ParseTs(events[i].timestamp) : i \in 1..Len(events)} :
        \A i \in 1..Len(events) : ParseTs(events[i].timestamp) <= t

\* Lines 227-259, one device on one day.  The inputs:
\*   fetchOk           get_day_report returned (demand, temps after
\*                     parse_day_report) rather than raised
\*   getOk             download_blob of get_last_interval (line 231) succeeded
\*   failAtD, failAtT  see write_consumption, for the two writer calls
\*   setDlOk, setUpOk  the download and the upload of set_last_interval
\* Comparing an aware timestamp with a naive last_processed raises TypeError,
\* and e['timestamp'].replace of an event whose timestamp is None raises
\* AttributeError (lines 233-234, evaluated when last_processed is not None).
\* Lines 240-246 leave such an event out of all_ts (try/except: pass).
device_day(blob, arts, device, in) ==
    LET last_processed == get_last_interval(blob, device, in.getOk).value
        cmp_raises == \/ last_processed.kind = "naive"
                         /\ (in.demand # <<>> \/ in.temps # <<>>)
                      \/ last_processed.kind # "none"
                         /\ \E e \in Range(in.demand \o in.temps) :
                               e.timestamp = NoneTs
        demand_events == IF last_processed.kind = "none" THEN in.demand
                         ELSE NewerThan(in.demand, last_processed)
        temp_records == IF last_processed.kind = "none" THEN in.temps
                        ELSE NewerThan(in.temps, last_processed)
        wd == write_demand_events(arts, device, demand_events, in.failAtD)
        wt == write_temperature_events(wd.arts, device, temp_records, in.failAtT)
        all_ts == SelectSeq(demand_events \o temp_records,
                            LAMBDA e : e.timestamp # NoneTs)
        set == set_last_interval(blob, device, DtArg(Aware(MaxTs(all_ts))),
                                 in.setDlOk, in.setUpOk)
        base == [raised |-> TRUE, blob |-> blob, arts |-> arts,
                 stage |-> "fetch", set_called |-> FALSE, written |-> 0]
    IN  IF ~in.fetchOk THEN base
        ELSE IF cmp_raises THEN [base EXCEPT !.stage = "filter"]
        ELSE IF wd.raised THEN [base EXCEPT !.stage = "write", !.arts = wd.arts]
        ELSE IF wt.raised THEN [base EXCEPT !.stage = "write", !.arts = wt.arts]
        ELSE IF all_ts = <<>>
        THEN NoNewData(base)
        ELSE [raised |-> set.raised, blob |-> set.blob, arts |-> wt.arts,
              stage |-> IF set.raised THEN "set" ELSE "done",
              set_called |-> TRUE, written |-> Len(all_ts)]

----------------------------------------------------------------------------
(* State *)

VARIABLES
    state_blob,    \* container -> the blob state/last_interval.json in it
    artifacts,     \* <<container, stream, date>> -> rows of data.parquet (<<>>: no blob)
    cl,            \* cursor-store client -> its call in progress
    ver,           \* number of uploads of the consumption cursor blob so far
    ops,           \* number of cursor-store calls started so far
    last_get,      \* the last get_last_interval call: arguments and result
    done_set,      \* client -> its last completed set_last_interval call
    cfg,           \* the environment: SKIP_OCTOPUS, SKIP_TADO, meters, TRV devices
    pc,            \* where main is
    now,           \* the last reading of the wall clock: main, each meter pass, tado plan
    meter_idx,     \* run_octopus_ingestion: index of the next meter
    success_count, \* run_octopus_ingestion: success_count
    error_count,   \* run_octopus_ingestion: error_count
    devices,       \* run_tado_ingestion: devices
    per_device_start, \* run_tado_ingestion: per_device_start (instants)
    day_cursor,    \* run_tado_ingestion: day_cursor
    dev_idx,       \* run_tado_ingestion: index of the next device of the day
    success,       \* run_tado_ingestion: success
    errors,        \* run_tado_ingestion: errors
    total_success, \* main: total_success
    total_errors,  \* main: total_errors
    outcome,       \* how the last run of main ended: "returned" or "raised"
    pass,          \* the last stream pass: what it did
    log,           \* the stream passes of the current run, in order
    fatal,         \* the sources of the current run that failed outside a stream pass
    plan_read_failed, \* device -> its cursor read at planning failed
    gaps,          \* <<container, stream>> -> the dates a pass of the current run
                   \* fetched or asked for and left unwritten when it raised
    last_write,    \* the last direct call of a writer method: method, batch, and
                   \* how many times in a row it was made
    report,        \* the raw day report of the last device-day pass run on one
    http,          \* OctopusClient: the _paginate call in progress and its requests
    tado_http,     \* TadoClient: the token and the get_day_report call in progress
    backfill,      \* backfill_tado_unified.main: the day loop and its worker pool
    enrich,        \* the last call of an enrich function: arguments and result
    token          \* the TadoClient shared by the pool workers, the secret store
                   \* and the vendor's token endpoint

storeVars == <<cl, ver, ops, last_get, done_set>>
schedVars == <<artifacts, cfg, pc, now, meter_idx, success_count, error_count,
               devices, per_device_start, day_cursor, dev_idx, success, errors,
               total_success, total_errors, outcome, pass, log, fatal,
               plan_read_failed, gaps>>
writerVars == <<last_write>>
toolVars == <<report, http, tado_http, backfill, enrich, token>>
vars == <<state_blob, storeVars, schedVars, writerVars, toolVars>>

Containers == {"consumption", "heating"}
Paths == Containers \X StreamKeys \X Dates
NoArtifacts == [p \in Paths |-> <<>>]
NoPass == [source |-> "none", key |-> "s1", date |-> 0, raised |-> FALSE,
           stage |-> "none", start |-> 0, read_failed |-> FALSE,
           set_called |-> FALSE, fetched |-> 0, records |-> <<>>,
           returned |-> "none"]

\* What the vendor call of a pass gave: nothing (it raised or was not made),
\* zero records, or some.
Returned(fetchOk, n) ==
    IF ~fetchOk THEN "none" ELSE IF n = 0 THEN "zero" ELSE "some"

NoWrite == [method |-> "none", batch |-> <<>>, args |-> <<>>, n |-> 0]

\* The client, backfill and enrich variables while none of them is run.
NoReport == [demand |-> <<>>, temps |-> <<>>]
NoHttp == [pc |-> "idle", page |-> 0, attempt |-> 0, results |-> <<>>,
           requests |-> <<>>]
NoTadoHttp == [pc |-> "idle", stale |-> FALSE, rejected |-> FALSE, refreshes |-> 0,
               requests |-> 0, status |-> "none"]
NoBackfill == [pc |-> "idle", current_date |-> 0, max_workers |-> 1,
               dry_run |-> FALSE, futures |-> [k \in StreamKeys |-> "none"],
               collected |-> {}, all_demand |-> <<>>, all_temps |-> <<>>,
               success |-> 0, events |-> <<>>]
NoEnrich == [fn |-> "none", arg |-> "none", consumption |-> <<>>,
             with_column |-> TRUE, rates |-> <<>>, rows |-> <<>>,
             counts |-> <<0, 0, 0>>]

\* The threads of the backfill pool that call the shared client.
TokenWorkers == {"w1", "w2"}

NoTokenCall == [pc |-> "idle", secret |-> 0, sent |-> 0, has_token |-> FALSE,
                resp |-> 0, old |-> 0, arg |-> 0, calls |-> 0]
NoToken == [stale |-> FALSE, refresh_token |-> 0, vault |-> 0, issued |-> 0,
            rejected |-> FALSE, w |-> [x \in TokenWorkers |-> NoTokenCall]]

ToolsIdle ==
    /\ token = NoToken
    /\ report = NoReport
    /\ http = NoHttp
    /\ tado_http = NoTadoHttp
    /\ backfill = NoBackfill
    /\ enrich = NoEnrich

\* The scheduler's variables before any run.
SchedIdle ==
    /\ artifacts = NoArtifacts
    /\ pc = "idle"
    /\ now = 0
    /\ meter_idx = 1
    /\ success_count = 0
    /\ error_count = 0
    /\ devices = <<>>
    /\ per_device_start = [k \in StreamKeys |-> 0]
    /\ day_cursor = 0
    /\ dev_idx = 1
    /\ success = 0
    /\ errors = 0
    /\ total_success = 0
    /\ total_errors = 0
    /\ outcome = "none"
    /\ pass = NoPass
    /\ log = <<>>
    /\ fatal = {}
    /\ plan_read_failed = [k \in StreamKeys |-> FALSE]
    /\ gaps = [p \in Containers \X StreamKeys |-> {}]

----------------------------------------------------------------------------
(* The cursor store used by concurrent callers (two orchestrator instances *)
(* on one container): set_last_interval is a download step followed by an  *)
(* upload step, with no lock between them.                                 *)

Clients == {1, 2}
MaxStoreOps == 3

\* Instants used by the cursor-store calls: 2024-01-01T01:00:00Z and 01:30.
StoreT1 == 19723 * Day + Hour
StoreT2 == StoreT1 + 30 * 60

\* Arguments of set_last_interval: aware and naive datetimes and raw strings.
SetArgs ==
    {DtArg(Aware(StoreT1)), DtArg(Aware(StoreT2)), DtArg(Naive(StoreT1)),
     StrArg(StrBad)}

IdleCall == [pc |-> "idle", key |-> "s1", j |-> EmptyMap,
             stored |-> Absent, dlOk |-> FALSE, dlVer |-> 0]
NoSet == [done |-> FALSE, key |-> "s1", stored |-> Absent,
          dlOk |-> FALSE, dlVer |-> 0, upVer |-> 0, pre |-> MissingBlob]
NoGet == [n |-> 0, key |-> "s1", dlOk |-> FALSE, ver |-> 0,
          res |-> [raised |-> FALSE, value |-> None]]

\* Blobs a container can hold before the first call: none, bytes that are not
\* JSON, or a document written by an earlier deployment.
InitialBlobs ==
    {MissingBlob, CorruptBlob,
     DocBlob([EmptyMap EXCEPT !["s1"] = StrNaive(StoreT1)]),
     DocBlob([EmptyMap EXCEPT !["s1"] = StrOffset(StoreT1 + Hour, Hour),
                              !["s2"] = StrBad])}

InitStore ==
    /\ state_blob \in [Containers -> InitialBlobs]
    /\ state_blob["heating"] = MissingBlob
    /\ cl = [c \in Clients |-> IdleCall]
    /\ ver = 0
    /\ ops = 0
    /\ last_get = NoGet
    /\ done_set = [c \in Clients |-> NoSet]
    /\ cfg = [skip_octopus |-> TRUE, skip_tado |-> TRUE, meters |-> <<>>,
              trvs |-> <<>>]
    /\ SchedIdle
    /\ last_write = NoWrite
    /\ ToolsIdle

\* get_last_interval(key) by client c (lines 17-50), one call.
StoreGet(c) ==
    /\ cl[c].pc = "idle"
    /\ ops < MaxStoreOps
    /\ \E key \in StreamKeys, dlOk \in BOOLEAN :
          last_get' = [n |-> ops + 1, key |-> key, dlOk |-> dlOk,
                       ver |-> ver,
                       res |-> get_last_interval(state_blob["consumption"], key, dlOk)]
    /\ ops' = ops + 1
    /\ UNCHANGED <<state_blob, cl, ver, done_set>>
    /\ UNCHANGED schedVars
    /\ UNCHANGED writerVars
    /\ UNCHANGED toolVars

\* set_last_interval(key, arg) by client c, lines 60-74: download, build j.
StoreSetDownload(c) ==
    /\ cl[c].pc = "idle"
    /\ ops < MaxStoreOps
    /\ \E key \in StreamKeys, arg \in SetArgs, dlOk \in BOOLEAN :
          cl' = [cl EXCEPT ![c] =
                    [pc |-> "upload", key |-> key,
                     j |-> SetKey(SetDownload(state_blob["consumption"], dlOk),
                                  key, StoredOf(arg)),
                     stored |-> StoredOf(arg),
                     dlOk |-> dlOk /\ state_blob["consumption"].kind = "doc",
                     dlVer |-> ver]]
    /\ ops' = ops + 1
    /\ UNCHANGED <<state_blob, ver, last_get, done_set>>
    /\ UNCHANGED schedVars
    /\ UNCHANGED writerVars
    /\ UNCHANGED toolVars

\* set_last_interval by client c, line 75: upload with overwrite.
StoreSetUpload(c) ==
    /\ cl[c].pc = "upload"
    /\ \E upOk \in BOOLEAN :
          IF upOk
          THEN /\ state_blob' = [state_blob EXCEPT !["consumption"] =
                                    UploadBlob(state_blob["consumption"], cl[c].j)]
               /\ ver' = ver + 1
               /\ done_set' = [done_set EXCEPT ![c] =
                                  [done |-> TRUE, key |-> cl[c].key,
                                   stored |-> cl[c].stored,
                                   dlOk |-> cl[c].dlOk, dlVer |-> cl[c].dlVer,
                                   upVer |-> ver + 1,
                                   pre |-> state_blob["consumption"]]]
          ELSE UNCHANGED <<state_blob, ver, done_set>>
    /\ cl' = [cl EXCEPT ![c] = IdleCall]
    /\ UNCHANGED <<ops, last_get>>
    /\ UNCHANGED schedVars
    /\ UNCHANGED writerVars
    /\ UNCHANGED toolVars

NextStore ==
    \E c \in Clients : StoreGet(c) \/ StoreSetDownload(c) \/ StoreSetUpload(c)

SpecStore == InitStore /\ [][NextStore]_vars

----------------------------------------------------------------------------
(* Cursor store: properties *)

\* The conditions under which get_last_interval has nothing to return: the
\* download failed, the blob is missing or not JSON, the key is absent, or
\* the stored value is not a timestamp.  (While no upload has followed the
\* get, g.ver = ver, state_blob is the blob the get read.)
GetHasNoValue(g) ==
    \/ ~g.dlOk
    \/ state_blob["consumption"].kind # "doc"
    \/ state_blob["consumption"].map[g.key].fmt \in {"absent", "bad"}

\* C8: get_last_interval never raises; when the blob download fails, the
\* document is not valid JSON, the key is absent or the stored value is not a
\* parseable timestamp it returns None; and a get leaves the cursor document
\* as it was.
C8_GetFailsSoft ==
    /\ [](last_get.n > 0 =>
            /\ ~last_get.res.raised
            /\ (last_get.ver = ver /\ GetHasNoValue(last_get))
                  => last_get.res.value = None)
    /\ [][last_get'.n # last_get.n => state_blob' = state_blob]_vars

C8_Witness ==
    /\ last_get.n > 0
    /\ last_get.dlOk
    /\ last_get.ver = ver
    /\ state_blob["consumption"].kind = "doc"
    /\ state_blob["consumption"].map[last_get.key].fmt = "bad"
    /\ last_get.res.value = None

\* The set calls whose upload is the latest one and that ran alone (no other
\* upload between their download and their upload): for them done_set[c].pre
\* is the document before the call and state_blob the document after it.
RanAlone(c) ==
    /\ done_set[c].done
    /\ done_set[c].upVer = ver
    /\ done_set[c].dlVer = ver - 1

OtherKeysKept(c) ==
    \A k \in StreamKeys \ {done_set[c].key} :
        (done_set[c].pre.kind = "doc" /\ done_set[c].pre.map[k] # Absent)
            => state_blob["consumption"].map[k] = done_set[c].pre.map[k]

\* C9 as stated: a set changes only its own key's entry, every other key
\* present before the call is present with the same value after it, whether
\* the set's own download succeeds or fails.
C9_SetChangesOnlyItsKey ==
    \A c \in Clients : RanAlone(c) => OtherKeysKept(c)

\* C9 amended: a set whose download of the document succeeds changes only its
\* own key's entry; a set whose download fails uploads a document that holds
\* its own key and no other.
C9_SetFrameOnDownload ==
    \A c \in Clients : RanAlone(c) =>
        /\ state_blob["consumption"].kind = "doc"
        /\ state_blob["consumption"].map[done_set[c].key] = done_set[c].stored
        /\ done_set[c].dlOk => OtherKeysKept(c)
        /\ ~done_set[c].dlOk =>
              \A k \in StreamKeys \ {done_set[c].key} :
                  state_blob["consumption"].map[k] = Absent

C9_Witness ==
    \E c \in Clients :
        /\ RanAlone(c)
        /\ done_set[c].dlOk
        /\ \E k \in StreamKeys \ {done_set[c].key} :
              /\ done_set[c].pre.map[k] # Absent
              /\ state_blob["consumption"].map[k] = done_set[c].pre.map[k]
        /\ done_set[c].pre.map[done_set[c].key] # done_set[c].stored

\* Two completed sets, a's upload directly followed by b's, on different keys.
Consecutive(a, b) ==
    /\ a # b
    /\ done_set[a].done /\ done_set[b].done
    /\ done_set[a].key # done_set[b].key
    /\ done_set[b].upVer = ver
    /\ done_set[a].upVer = ver - 1

\* Both sets downloaded the same document before either uploaded; that
\* document is done_set[a].pre, the blob a's upload replaced.
Interleaved(a, b) ==
    /\ done_set[a].dlOk /\ done_set[b].dlOk
    /\ done_set[a].dlVer = done_set[a].upVer - 1
    /\ done_set[b].dlVer = done_set[a].dlVer

\* C10: two sets for different keys race with last-write-wins on the whole
\* document.  When both downloaded the same document before either uploaded,
\* the final document is the later upload: the downloaded document with the
\* later writer's key set, without the earlier writer's update.  When the
\* later writer downloaded the document after the earlier upload, both
\* updates are in the final document.
C10_LastWriteWins ==
    \A a, b \in Clients : Consecutive(a, b) =>
        /\ Interleaved(a, b)
              => state_blob["consumption"] =
                     DocBlob([done_set[a].pre.map EXCEPT
                                 ![done_set[b].key] = done_set[b].stored])
        /\ (done_set[b].dlOk /\ done_set[b].dlVer = done_set[a].upVer)
              => /\ state_blob["consumption"].map[done_set[a].key] = done_set[a].stored
                 /\ state_blob["consumption"].map[done_set[b].key] = done_set[b].stored

\* The lost update is reached: a's stored value is not in the final document.
C10_Witness ==
    \E a, b \in Clients :
        /\ Consecutive(a, b)
        /\ Interleaved(a, b)
        /\ state_blob["consumption"].map[done_set[a].key] # done_set[a].stored
        /\ state_blob["consumption"].map[done_set[b].key] = done_set[b].stored

----------------------------------------------------------------------------
(* The scheduler: main, run_octopus_ingestion, run_tado_ingestion *)

\* The environments the model runs the scheduler in: Octopus only with two
\* meters, Tado only with two TRVs, both sources with one stream each, and
\* both sources skipped.
Configs ==
    {[skip_octopus |-> FALSE, skip_tado |-> TRUE, meters |-> <<"s1", "s2">>,
      trvs |-> <<>>],
     [skip_octopus |-> TRUE, skip_tado |-> FALSE, meters |-> <<>>,
      trvs |-> <<"s1", "s2">>],
     [skip_octopus |-> FALSE, skip_tado |-> FALSE, meters |-> <<"s2">>,
      trvs |-> <<"s2">>],
     [skip_octopus |-> TRUE, skip_tado |-> TRUE, meters |-> <<>>,
      trvs |-> <<>>]}

\* A watermark of an earlier deployment, more than seven days before the run.
OldW == (D0 - 8) * Day + 12 * Hour

\* The consumption cursor blob before the first run: none yet, one with an
\* old watermark for s1, or one whose s1 value was put without a zone.
SchedInitialBlobs ==
    {MissingBlob,
     DocBlob([EmptyMap EXCEPT !["s1"] = StrZ(OldW)]),
     DocBlob([EmptyMap EXCEPT !["s1"] = StrNaive(OldW)])}

\* The heating cursor blob before the first run: none yet, or one whose s1
\* value was put without a zone.
SchedHeatingBlobs ==
    {MissingBlob, DocBlob([EmptyMap EXCEPT !["s1"] = StrNaive(OldW)])}

Init ==
    /\ cfg \in Configs
    /\ state_blob \in [Containers -> SchedInitialBlobs \cup SchedHeatingBlobs]
    /\ state_blob["consumption"] \in SchedInitialBlobs
    /\ state_blob["heating"] \in SchedHeatingBlobs
    /\ "s1" \notin Range(cfg.meters) => state_blob["consumption"] = MissingBlob
    /\ "s1" \notin Range(cfg.trvs) => state_blob["heating"] = MissingBlob
    /\ cl = [c \in Clients |-> IdleCall]
    /\ ver = 0
    /\ ops = 0
    /\ last_get = NoGet
    /\ done_set = [c \in Clients |-> NoSet]
    /\ SchedIdle
    /\ last_write = NoWrite
    /\ ToolsIdle

\* The records the vendor returns for a window [start, now): those of any
\* set of its intervals whose interval_start is in the window, in ascending
\* order; with dup, a page boundary repeats the first record.
Responses(meter, start, t_now, dup) ==
    {LET q == SortedSeq(S)
         recs == [i \in 1..Len(q) |-> ConsumptionRec(q[i])]
     IN  IF dup /\ recs # <<>> THEN recs \o <<recs[1]>> ELSE recs :
        S \in SUBSET {t \in SlotsOf(meter) : start <= t /\ t < t_now}}

\* The events of one kind a day report of a device and date can carry at
\* t_now.
DayEvents(kind, device, date, t_now) ==
    {LET q == SortedSeq(S) IN [i \in 1..Len(q) |-> HeatRec(kind, q[i])] :
        S \in SUBSET {t \in HeatTsOf(kind, device) :
                          DateOf(t) = date /\ t < t_now}}

\* What can go wrong in one stream pass besides the cursor read: nothing, the
\* vendor call, an upload of the writer (the first or the second of
\* write_consumption; that of write_demand_events or of
\* write_temperature_events), the download inside set_last_interval (caught
\* there), its upload.
OctopusFaults == {"none", "fetch", "write1", "write2", "set_download",
                  "set_upload"}
TadoFaults == {"none", "fetch", "write_demand", "write_temps", "set_download",
               "set_upload"}

\* The try/except around one stream pass (lines 84-98 and 227-259): the
\* counters after a pass that raised or returned.
CountPass(succ, errs, raised) ==
    IF raised THEN <<succ, errs + 1>> ELSE <<succ + 1, errs>>

\* How a pass ended, from the stage it reached: it returned, its vendor call
\* raised, or another of its calls raised.
PassResult(stage) ==
    IF stage \in {"empty", "done"} THEN "ok"
    ELSE IF stage = "fetch" THEN "fetch_raised" ELSE "raised"

\* main, line 64: the run raises to its trigger.
ShouldRaiseMutAnyError(t_success, t_errors) ==
    t_errors > 0

ShouldRaise(t_success, t_errors) ==
    t_errors > 0 /\ t_success = 0

\* main, lines 24-31: the timer fires, later than the run before.
StartRun ==
    /\ pc = "idle"
    /\ \E t \in NowChoices : t > now /\ now' = t
    /\ total_success' = 0
    /\ total_errors' = 0
    /\ pass' = NoPass
    /\ log' = <<>>
    /\ fatal' = {}
    /\ gaps' = [p \in Containers \X StreamKeys |-> {}]
    /\ outcome' = "none"
    /\ pc' = "octopus_begin"
    /\ UNCHANGED <<state_blob, artifacts, cfg, meter_idx, success_count,
                   error_count, devices, per_device_start, day_cursor, dev_idx,
                   success, errors, plan_read_failed>>
    /\ UNCHANGED storeVars
    /\ UNCHANGED writerVars
    /\ UNCHANGED toolVars

\* main, lines 34-43, and run_octopus_ingestion, lines 68-81: the source is
\* skipped, or its set-up raises (fatal, counted as one error by main), or
\* the meter loop starts.
OctopusBegin ==
    /\ pc = "octopus_begin"
    /\ \E setupOk \in BOOLEAN :
          IF cfg.skip_octopus
          THEN /\ pc' = "tado_begin"
               /\ UNCHANGED <<total_errors, fatal>>
          ELSE IF ~setupOk
          THEN /\ pc' = "tado_begin"
               /\ total_errors' = total_errors + 1
               /\ fatal' = fatal \cup {"octopus"}
          ELSE /\ pc' = "octopus"
               /\ UNCHANGED <<total_errors, fatal>>
    /\ meter_idx' = 1
    /\ success_count' = 0
    /\ error_count' = 0
    /\ UNCHANGED <<state_blob, artifacts, cfg, now, devices, per_device_start,
                   day_cursor, dev_idx, success, errors, total_success, outcome,
                   pass, log, plan_read_failed, gaps>>
    /\ UNCHANGED storeVars
    /\ UNCHANGED writerVars
    /\ UNCHANGED toolVars

\* The dates of a batch that write_consumption left unwritten when its
\* failAt-th upload raised.
UnwrittenDates(records, failAt) ==
    LET rows == DropDuplicates([i \in 1..Len(records) |->
                                    ConsumptionRow(records[i])])
    IN  {BatchDates(rows)[i] : i \in failAt..Len(BatchDates(rows))}

\* run_octopus_ingestion, lines 83-98: one meter of the loop, the whole of
\* ingest_meter_consumption inside its try/except.  The pass reads the clock
\* itself (line 118): t_now is the end of its window and the base of a first
\* run's start.
OctopusMeter ==
    /\ pc = "octopus"
    /\ meter_idx <= Len(cfg.meters)
    /\ LET meter == cfg.meters[meter_idx] IN
       \E getOk \in BOOLEAN, fault \in OctopusFaults, dup \in BOOLEAN,
          t_now \in ClockReads(now) :
          LET st == StartTime(get_last_interval(state_blob["consumption"],
                                                meter, getOk).value, t_now)
              failAt == IF fault = "write1" THEN 1
                        ELSE IF fault = "write2" THEN 2 ELSE 0
          IN  \E records \in Responses(meter,
                                       IF st.raised THEN t_now ELSE st.start,
                                       t_now, dup /\ fault = "none") :
                LET in == [getOk |-> getOk, fetchOk |-> fault # "fetch",
                           records |-> records, failAt |-> failAt,
                           setDlOk |-> fault # "set_download",
                           setUpOk |-> fault # "set_upload"]
                    r == ingest_meter_consumption(state_blob["consumption"],
                                                  artifacts, meter, t_now, in)
                    counts == CountPass(success_count, error_count, r.raised)
                IN  /\ now' = t_now
                    /\ state_blob' = [state_blob EXCEPT !["consumption"] = r.blob]
                    /\ artifacts' = r.arts
                    /\ success_count' = counts[1]
                    /\ error_count' = counts[2]
                    /\ pass' = [source |-> "octopus", key |-> meter, date |-> 0,
                                raised |-> r.raised, stage |-> r.stage,
                                start |-> r.start,
                                read_failed |-> ~getOk,
                                set_called |-> r.set_called,
                                fetched |-> IF r.stage \in {"write", "set", "done"}
                                            THEN Len(records) ELSE 0,
                                records |-> IF r.stage \in {"write", "set", "done"}
                                            THEN records ELSE <<>>,
                                returned |-> Returned(in.fetchOk /\ ~st.raised,
                                                      Len(records))]
                    /\ log' = Append(log, [source |-> "octopus", key |-> meter,
                                           date |-> 0,
                                           result |-> PassResult(r.stage)])
                    /\ gaps' = IF r.stage = "write"
                               THEN [gaps EXCEPT ![<<"consumption", meter>>] =
                                        UnwrittenDates(records, failAt)]
                               ELSE gaps
    /\ meter_idx' = meter_idx + 1
    /\ UNCHANGED <<cfg, pc, devices, per_device_start, day_cursor, dev_idx,
                   success, errors, total_success, total_errors, outcome, fatal,
                   plan_read_failed>>
    /\ UNCHANGED storeVars
    /\ UNCHANGED writerVars
    /\ UNCHANGED toolVars

\* run_octopus_ingestion, lines 100-104, and main, lines 38-40: the loop is
\* over and the counts are returned and summed.
OctopusReturn ==
    /\ pc = "octopus"
    /\ meter_idx > Len(cfg.meters)
    /\ total_success' = total_success + success_count
    /\ total_errors' = total_errors + error_count
    /\ pc' = "tado_begin"
    /\ UNCHANGED <<state_blob, artifacts, cfg, now, meter_idx, success_count,
                   error_count, devices, per_device_start, day_cursor, dev_idx,
                   success, errors, outcome, pass, log, fatal, plan_read_failed,
                   gaps>>
    /\ UNCHANGED storeVars
    /\ UNCHANGED writerVars
    /\ UNCHANGED toolVars

\* The least element of a non-empty set of integers.
MinOf(S) == CHOOSE x \in S : \A y \in S : x <= y

\* run_tado_ingestion, lines 201-214: the start of each device's window from
\* its cursor read; reads[d] is whether the download of d's read succeeded.
PlanStarts(blob, trvs, t_now, reads) ==
    [d \in StreamKeys |->
        IF d \in Range(trvs)
        THEN DeviceStart(get_last_interval(blob, d, reads[d]).value, t_now)
        ELSE Aware(t_now)]

\* main, lines 47-56, and run_tado_ingestion, lines 171-217: the source is
\* skipped; or the settings fail to load (0, 1); or the set-up raises (fatal,
\* counted as one error by main); or no TRV is discovered (0, 0); or the
\* windows are planned and the day loop starts.  A naive start compared with
\* the aware earliest (line 213) raises out of run_tado_ingestion, the
\* planning loop being inside no try: main counts one error ("tado_plan").
TadoBegin ==
    /\ pc = "tado_begin"
    /\ \E kind \in {"settings", "setup", "no_devices", "plan"},
          reads \in [StreamKeys -> BOOLEAN],
          t_now \in ClockReads(now) :
          LET starts == PlanStarts(state_blob["heating"], cfg.trvs, t_now, reads)
              raises == \E d \in Range(cfg.trvs) : starts[d].kind = "naive"
              earliest == MinOf({t_now} \cup {starts[d].t : d \in Range(cfg.trvs)})
              reads_clock == /\ ~cfg.skip_tado
                             /\ kind = "plan"
                             /\ cfg.trvs # <<>>
          IN  /\ now' = IF reads_clock THEN t_now ELSE now
              /\ IF cfg.skip_tado
                 THEN /\ pc' = "finish"
                      /\ UNCHANGED <<total_errors, fatal, devices, per_device_start,
                                     day_cursor, plan_read_failed>>
                 ELSE IF kind = "settings"
                 THEN /\ pc' = "finish"
                      /\ total_errors' = total_errors + 1
                      /\ fatal' = fatal \cup {"tado_settings"}
                      /\ UNCHANGED <<devices, per_device_start, day_cursor,
                                     plan_read_failed>>
                 ELSE IF kind = "setup" \/ (kind = "plan" /\ raises)
                 THEN /\ pc' = "finish"
                      /\ total_errors' = total_errors + 1
                      /\ fatal' = fatal \cup {IF kind = "setup" THEN "tado"
                                               ELSE "tado_plan"}
                      /\ UNCHANGED <<devices, per_device_start, day_cursor,
                                     plan_read_failed>>
                 ELSE IF kind = "no_devices" \/ cfg.trvs = <<>>
                 THEN /\ pc' = "finish"
                      /\ devices' = <<>>
                      /\ UNCHANGED <<total_errors, fatal, per_device_start,
                                     day_cursor, plan_read_failed>>
                 ELSE /\ pc' = "tado"
                      /\ devices' = cfg.trvs
                      /\ per_device_start' = [d \in StreamKeys |-> starts[d].t]
                      /\ plan_read_failed' =
                            [d \in StreamKeys |-> d \in Range(cfg.trvs) /\ ~reads[d]]
                      /\ day_cursor' = DateOf(earliest)
                      /\ UNCHANGED <<total_errors, fatal>>
    /\ dev_idx' = 1
    /\ success' = 0
    /\ errors' = 0
    /\ UNCHANGED <<state_blob, artifacts, cfg, meter_idx, success_count,
                   error_count, total_success, outcome, pass, log, gaps>>
    /\ UNCHANGED storeVars
    /\ UNCHANGED writerVars
    /\ UNCHANGED toolVars

\* Lines 219-221 and 260: the next position of the day loop after a device.
NextDevIdx == IF dev_idx = Len(devices) THEN 1 ELSE dev_idx + 1
NextDayCursor == IF dev_idx = Len(devices) THEN day_cursor + 1 ELSE day_cursor

\* Lines 224-225: the day is before the device's window; continue.
TadoSkipDay ==
    /\ pc = "tado"
    /\ day_cursor <= DateOf(now)
    /\ day_cursor < DateOf(per_device_start[devices[dev_idx]])
    /\ dev_idx' = NextDevIdx
    /\ day_cursor' = NextDayCursor
    /\ UNCHANGED <<state_blob, artifacts, cfg, pc, now, meter_idx, success_count,
                   error_count, devices, per_device_start, success, errors,
                   total_success, total_errors, outcome, pass, log, fatal,
                   plan_read_failed, gaps>>
    /\ UNCHANGED storeVars
    /\ UNCHANGED writerVars
    /\ UNCHANGED toolVars

\* Lines 227-259: one device on one day inside its try/except.
TadoDeviceDay ==
    /\ pc = "tado"
    /\ day_cursor <= DateOf(now)
    /\ day_cursor >= DateOf(per_device_start[devices[dev_idx]])
    /\ LET device == devices[dev_idx] IN
       \E getOk \in BOOLEAN, fault \in TadoFaults,
          demand \in DayEvents("demand", device, day_cursor, now),
          temps \in DayEvents("temp", device, day_cursor, now) :
          LET in == [fetchOk |-> fault # "fetch", demand |-> demand,
                     temps |-> temps, getOk |-> getOk,
                     failAtD |-> IF fault = "write_demand" THEN 1 ELSE 0,
                     failAtT |-> IF fault = "write_temps" THEN 1 ELSE 0,
                     setDlOk |-> fault # "set_download",
                     setUpOk |-> fault # "set_upload"]
              r == device_day(state_blob["heating"], artifacts, device, in)
              counts == CountPass(success, errors, r.raised)
          IN  /\ state_blob' = [state_blob EXCEPT !["heating"] = r.blob]
              /\ artifacts' = r.arts
              /\ success' = counts[1]
              /\ errors' = counts[2]
              /\ pass' = [source |-> "tado", key |-> device, date |-> day_cursor,
                          raised |-> r.raised, stage |-> r.stage,
                          start |-> per_device_start[device],
                          read_failed |-> plan_read_failed[device],
                          set_called |-> r.set_called, fetched |-> r.written,
                          records |-> <<>>,
                          returned |-> Returned(in.fetchOk,
                                                Len(demand) + Len(temps))]
              /\ log' = Append(log, [source |-> "tado", key |-> device,
                                     date |-> day_cursor,
                                     result |-> PassResult(r.stage)])
              /\ gaps' = IF r.stage \in {"fetch", "write"}
                         THEN [gaps EXCEPT ![<<"heating", device>>] =
                                  @ \cup {day_cursor}]
                         ELSE gaps
    /\ dev_idx' = NextDevIdx
    /\ day_cursor' = NextDayCursor
    /\ UNCHANGED <<cfg, pc, now, meter_idx, success_count, error_count, devices,
                   per_device_start, total_success, total_errors, outcome,
                   fatal, plan_read_failed>>
    /\ UNCHANGED storeVars
    /\ UNCHANGED writerVars
    /\ UNCHANGED toolVars

\* Lines 262-266 and main, lines 51-53: the day loop is over and the counts
\* are returned and summed.
TadoReturn ==
    /\ pc = "tado"
    /\ day_cursor > DateOf(now)
    /\ total_success' = total_success + success
    /\ total_errors' = total_errors + errors
    /\ pc' = "finish"
    /\ UNCHANGED <<state_blob, artifacts, cfg, now, meter_idx, success_count,
                   error_count, devices, per_device_start, day_cursor, dev_idx,
                   success, errors, outcome, pass, log, fatal, plan_read_failed,
                   gaps>>
    /\ UNCHANGED storeVars
    /\ UNCHANGED writerVars
    /\ UNCHANGED toolVars

\* main, lines 59-66: the run ends, raising when every source failed.
Finish ==
    /\ pc = "finish"
    /\ outcome' = IF ShouldRaise(total_success, total_errors)
                  THEN "raised" ELSE "returned"
    /\ pc' = "idle"
    /\ UNCHANGED <<state_blob, artifacts, cfg, now, meter_idx, success_count,
                   error_count, devices, per_device_start, day_cursor, dev_idx,
                   success, errors, total_success, total_errors, pass, log,
                   fatal, plan_read_failed, gaps>>
    /\ UNCHANGED storeVars
    /\ UNCHANGED writerVars
    /\ UNCHANGED toolVars

Next ==
    \/ StartRun
    \/ OctopusBegin
    \/ OctopusMeter
    \/ OctopusReturn
    \/ TadoBegin
    \/ TadoSkipDay
    \/ TadoDeviceDay
    \/ TadoReturn
    \/ Finish

Spec == Init /\ [][Next]_vars

----------------------------------------------------------------------------
(* Scheduler: properties *)

\* The watermark a stream has in a cursor blob: what a read that reaches the
\* blob returns.
Watermark(blob, key) == get_last_interval(blob, key, TRUE).value

\* A step that is one stream pass, and the container of the pass.
PassStep == Len(log') = Len(log) + 1
PassContainer == IF pass'.source = "octopus" THEN "consumption" ELSE "heating"

\* A step that starts a run.
StartRunStep == pc = "idle" /\ pc' = "octopus_begin"

\* C1: the watermark stored under a stream's key never decreases: in every
\* step, a stream that has a watermark still has one afterwards, and it is
\* not earlier.
C1_WatermarkMonotonic ==
    [][\A c \in Containers, k \in StreamKeys :
          Watermark(state_blob[c], k).kind # "none"
          => /\ Watermark(state_blob'[c], k).kind # "none"
             /\ Watermark(state_blob'[c], k).t >= Watermark(state_blob[c], k).t]_vars

\* No two rows of an artifact are the same.
NoDuplicateRows(rows) ==
    \A i, j \in 1..Len(rows) : rows[i] = rows[j] => i = j

\* C2: every consumption date artifact holds after a step at least the
\* records it held before, and never the same interval twice.
C2_ConsumptionArtifactsGrow ==
    [][\A p \in Paths :
          p[1] = "consumption"
          => /\ Range(artifacts[p]) \subseteq Range(artifacts'[p])
             /\ NoDuplicateRows(artifacts'[p])]_vars

\* C3: the records persisted for a heating device and day are still
\* persisted after every later pass over that day.
C3_HeatingDayGrows ==
    [][\A p \in Paths :
          p[1] = "heating"
          => Range(artifacts[p]) \subseteq Range(artifacts'[p])]_vars

\* The start of the window the run at instant t plans for a stream from the
\* cursor blob.
NextWindowStart(c, k, t) ==
    IF c = "consumption"
    THEN LET st == StartTime(Watermark(state_blob[c], k), t)
         IN  IF st.raised THEN t ELSE st.start
    ELSE DeviceStart(Watermark(state_blob[c], k), t).t

\* C4: a pass changes the cursor blob only when its fetch returned at least
\* one record and all its partition writes returned; a pass whose fetch or
\* partition write raised leaves the cursor blob as it was; and the window
\* the next run plans for a stream starts on or before every date a raising
\* pass of the run before left unwritten.
C4_CursorAfterWrites ==
    [][/\ PassStep
          => /\ state_blob' # state_blob
                => pass'.stage = "done" /\ pass'.fetched >= 1
             /\ pass'.stage \in {"fetch", "write"} => state_blob' = state_blob
       /\ StartRunStep
          => \A c \in Containers, k \in StreamKeys :
                gaps[<<c, k>>] # {}
                => DateOf(NextWindowStart(c, k, now')) <= MinOf(gaps[<<c, k>>])]_vars

\* The first conjunct of C4 alone: the order of partition writes and cursor
\* write inside one pass.
CursorWriteOrder ==
    [][PassStep
          => /\ state_blob' # state_blob
                => pass'.stage = "done" /\ pass'.fetched >= 1
             /\ pass'.stage \in {"fetch", "write"} => state_blob' = state_blob]_vars

\* The passes of a source in the log of the run, in order.
LogOf(source) == SelectSeq(log, LAMBDA e : e.source = source)

\* The (device, day) pairs run_tado_ingestion walks: each day from the
\* earliest start to today, each device whose window has begun.
DeviceDays ==
    {<<d, day>> \in Range(devices) \X Dates :
        /\ day <= DateOf(now)
        /\ day >= DateOf(per_device_start[d])}

\* The planning loop of run_tado_ingestion raised (line 213).
PlanningRaised == pc = "tado_begin" /\ "tado_plan" \in fatal'

\* What holds of the stream passes: a pass that raises, at whatever stage,
\* adds exactly one to its source's error count and nothing to its success
\* count, and leaves the loop running; a pass that returns adds one success;
\* when a source's loop ends every one of its streams was attempted once, in
\* order; and with two meters of which the first one's fetch raised and the
\* second succeeded the source reports (1, 1) and the run returns.
PassFaultIsolation ==
    [][/\ (PassStep /\ pass'.source = "octopus")
          => /\ pass'.key = cfg.meters[meter_idx]
             /\ pc' = "octopus" /\ meter_idx' = meter_idx + 1
             /\ success_count' = success_count + (IF pass'.raised THEN 0 ELSE 1)
             /\ error_count' = error_count + (IF pass'.raised THEN 1 ELSE 0)
       /\ (PassStep /\ pass'.source = "tado")
          => /\ pass'.key = devices[dev_idx] /\ pass'.date = day_cursor
             /\ pc' = "tado"
             /\ success' = success + (IF pass'.raised THEN 0 ELSE 1)
             /\ errors' = errors + (IF pass'.raised THEN 1 ELSE 0)
       /\ (pc = "octopus" /\ pc' = "tado_begin")
          => [i \in 1..Len(LogOf("octopus")) |-> LogOf("octopus")[i].key]
                = cfg.meters
       /\ (pc = "tado" /\ pc' = "finish")
          => /\ {<<e.key, e.date>> : e \in Range(LogOf("tado"))} = DeviceDays
             /\ Len(LogOf("tado")) = Cardinality(DeviceDays)
       /\ (pc = "finish" /\ pc' = "idle" /\ Len(LogOf("octopus")) = 2
           /\ LogOf("octopus")[1].result = "fetch_raised"
           /\ LogOf("octopus")[2].result = "ok")
          => /\ success_count = 1 /\ error_count = 1
             /\ outcome' = "returned"]_vars

\* C5: an exception raised at any stage of a stream, window planning
\* included, is caught at the stream boundary, adds exactly one to its
\* source's error count and leaves the loop running, so that every other
\* stream is attempted; a pass that returns adds one success; when a
\* source's loop ends every one of its streams was attempted once, in order;
\* and with two meters of which the first one's fetch raised and the second
\* succeeded the source reports (1, 1) and the run returns.
C5_FaultIsolation ==
    [][/\ (PassStep /\ pass'.source = "octopus")
          => /\ pass'.key = cfg.meters[meter_idx]
             /\ pc' = "octopus" /\ meter_idx' = meter_idx + 1
             /\ success_count' = success_count + (IF pass'.raised THEN 0 ELSE 1)
             /\ error_count' = error_count + (IF pass'.raised THEN 1 ELSE 0)
       /\ (PassStep /\ pass'.source = "tado")
          => /\ pass'.key = devices[dev_idx] /\ pass'.date = day_cursor
             /\ pc' = "tado"
             /\ success' = success + (IF pass'.raised THEN 0 ELSE 1)
             /\ errors' = errors + (IF pass'.raised THEN 1 ELSE 0)
       /\ PlanningRaised
          => /\ pc' = "tado"
             /\ devices' = cfg.trvs
       /\ (pc = "octopus" /\ pc' = "tado_begin")
          => [i \in 1..Len(LogOf("octopus")) |-> LogOf("octopus")[i].key]
                = cfg.meters
       /\ (pc = "tado" /\ pc' = "finish")
          => /\ {<<e.key, e.date>> : e \in Range(LogOf("tado"))} = DeviceDays
             /\ Len(LogOf("tado")) = Cardinality(DeviceDays)
       /\ (pc = "finish" /\ pc' = "idle" /\ Len(LogOf("octopus")) = 2
           /\ LogOf("octopus")[1].result = "fetch_raised"
           /\ LogOf("octopus")[2].result = "ok")
          => /\ success_count = 1 /\ error_count = 1
             /\ outcome' = "returned"]_vars

\* C6: the run raises exactly when no stream pass of a source that ran
\* succeeded and something failed (a stream pass, a source's set-up or its
\* settings); a run with a success returns, and so does a run with no
\* success and no failure.
C6_RunOutcome ==
    [][(pc = "finish" /\ pc' = "idle")
          => LET ok == \E e \in Range(log) : e.result = "ok"
                 failed == \/ \E e \in Range(log) : e.result # "ok"
                           \/ fatal # {}
             IN  /\ outcome' = "raised" <=> (~ok /\ failed)
                 /\ ok => outcome' = "returned"
                 /\ (~ok /\ ~failed) => outcome' = "returned"]_vars

\* A run whose only source had its fetches raise has ended by raising.
C6_Witness ==
    /\ pc = "idle" /\ outcome = "raised"
    /\ cfg.skip_tado /\ ~cfg.skip_octopus
    /\ log # <<>>
    /\ \A e \in Range(log) : e.result = "fetch_raised"

\* C7: whenever the cursor read of a stream with a stored
\* watermark W fails, the window planned starts no later than the window
\* planned from W (for heating, no later day).
C7_ReadFailureEnlarges ==
    [][/\ (PassStep /\ pass'.source = "octopus" /\ pass'.read_failed
           /\ Watermark(state_blob["consumption"], pass'.key).kind = "aware")
          => pass'.start
                <= StartTime(Watermark(state_blob["consumption"], pass'.key),
                             now').start
       /\ (pc = "tado_begin" /\ pc' = "tado")
          => \A d \in Range(devices') :
                (plan_read_failed'[d]
                 /\ Watermark(state_blob["heating"], d).kind = "aware")
                => DateOf(per_device_start'[d])
                      <= DateOf(DeviceStart(Watermark(state_blob["heating"], d),
                                            now').t)]_vars

\* What holds: when the cursor read of a stream fails the window planned is
\* the first-run window, from now - 7 days for consumption and from
\* now - 1 hour for heating, whatever W is; it starts no later than the
\* window planned from W when W - 30 min - 1 s is not before now - 7 days
\* (consumption) or the date of W is not before that of now - 1 hour
\* (heating).
ReadFailureBootstraps ==
    [][/\ (PassStep /\ pass'.source = "octopus" /\ pass'.read_failed)
          => LET W == Watermark(state_blob["consumption"], pass'.key)
             IN  /\ pass'.start = now' - 7 * Day
                 /\ (W.kind = "aware" /\ W.t - (30 * 60 + 1) >= now' - 7 * Day)
                    => pass'.start <= StartTime(W, now').start
       /\ (pc = "tado_begin" /\ pc' = "tado")
          => \A d \in Range(devices') :
                plan_read_failed'[d]
                => LET W == Watermark(state_blob["heating"], d)
                   IN  /\ per_device_start'[d] = now' - Hour
                       /\ (W.kind = "aware"
                           /\ DateOf(W.t) >= DateOf(now' - Hour))
                          => DateOf(per_device_start'[d])
                                <= DateOf(DeviceStart(W, now').t)]_vars

\* The instants at which the run after a run at t can take place.
NextRunInstants(t) == {u \in NowChoices : u > t} \cup {t + Hour}

\* A step that is a consumption pass whose cursor upload raised after its
\* partitions were written.
CursorUploadRaised ==
    PassStep /\ pass'.source = "octopus" /\ pass'.stage = "set"

\* The first three parts of C11: one error, partitions in place, cursor blob
\* as before.
CursorUploadRaisedKeeps ==
    [][CursorUploadRaised
          => /\ error_count' = error_count + 1
             /\ success_count' = success_count
             /\ \A i \in 1..Len(pass'.records) :
                   LET row == ConsumptionRow(pass'.records[i])
                   IN  row \in Range(artifacts'[<<"consumption", pass'.key,
                                                 PartitionDate(row)>>])
             /\ state_blob' = state_blob]_vars

\* C11: a consumption pass whose cursor upload raised is counted as one
\* error, its partitions are in place, the cursor blob is as before the
\* pass, and the window the next run plans from it contains every record
\* fetched in the pass.
C11_CursorUploadRaised ==
    [][CursorUploadRaised
          => /\ error_count' = error_count + 1
             /\ success_count' = success_count
             /\ \A i \in 1..Len(pass'.records) :
                   LET row == ConsumptionRow(pass'.records[i])
                   IN  row \in Range(artifacts'[<<"consumption", pass'.key,
                                                 PartitionDate(row)>>])
             /\ state_blob' = state_blob
             /\ \A t \in NextRunInstants(now'), i \in 1..Len(pass'.records) :
                   LET st == StartTime(Watermark(state_blob'["consumption"],
                                                 pass'.key), t)
                       r_start == ParseTs(pass'.records[i].interval_start)
                   IN  ~st.raised /\ st.start <= r_start /\ r_start < t]_vars

----------------------------------------------------------------------------
(* The writer called directly: DataLakeWriter.write_consumption,           *)
(* write_demand_events and write_temperature_events on the artifacts of    *)
(* stream s1, with any batch, duplicates included, and the generic         *)
(* write_partitioned_data with a caller's records, path formatter,         *)
(* partition column and dedup columns.                                     *)

\* The batches over a set of records: the records of any non-empty subset in
\* ascending order, and the same with the first record repeated at the end.
BatchesOf(times, rec) ==
    UNION {LET q == SortedSeq(S)
               b == [i \in 1..Len(q) |-> rec[q[i]]]
           IN  {b, b \o <<b[1]>>} : S \in (SUBSET times) \ {{}}}

DemandRec(t) == HeatRec("demand", t)
TemperatureRec(t) == HeatRec("temp", t)

InitWriter ==
    /\ state_blob = [c \in Containers |-> MissingBlob]
    /\ cl = [c \in Clients |-> IdleCall]
    /\ ver = 0
    /\ ops = 0
    /\ last_get = NoGet
    /\ done_set = [c \in Clients |-> NoSet]
    /\ cfg = [skip_octopus |-> TRUE, skip_tado |-> TRUE, meters |-> <<>>,
              trvs |-> <<>>]
    /\ SchedIdle
    /\ last_write = NoWrite
    /\ ToolsIdle

\* The record of a call: n is 2 when the call before was the same call.
WriteRecord(method, batch, args) ==
    [method |-> method, batch |-> batch, args |-> args,
     n |-> IF /\ last_write.method = method
              /\ last_write.batch = batch
              /\ last_write.args = args
           THEN 2 ELSE 1]

\* writer.write_consumption(meter s1, batch) returns.
WriteConsumptionCall ==
    /\ \E batch \in BatchesOf(Slots, [t \in Slots |-> ConsumptionRec(t)]) :
          /\ artifacts' = write_consumption(artifacts, "s1", batch, 0).arts
          /\ last_write' = WriteRecord("write_consumption", batch, <<>>)
    /\ UNCHANGED <<state_blob, cfg, pc, now, meter_idx, success_count,
                   error_count, devices, per_device_start, day_cursor, dev_idx,
                   success, errors, total_success, total_errors, outcome, pass,
                   log, fatal, plan_read_failed, gaps>>
    /\ UNCHANGED storeVars
    /\ UNCHANGED toolVars

\* writer.write_demand_events(s1, batch) returns.
WriteDemandCall ==
    /\ \E batch \in BatchesOf(HeatTs, [t \in HeatTs |-> DemandRec(t)]) :
          /\ artifacts' = write_demand_events(artifacts, "s1", batch, 0).arts
          /\ last_write' = WriteRecord("write_demand_events", batch, <<>>)
    /\ UNCHANGED <<state_blob, cfg, pc, now, meter_idx, success_count,
                   error_count, devices, per_device_start, day_cursor, dev_idx,
                   success, errors, total_success, total_errors, outcome, pass,
                   log, fatal, plan_read_failed, gaps>>
    /\ UNCHANGED storeVars
    /\ UNCHANGED toolVars

\* writer.write_temperature_events(s1, batch) returns.
WriteTemperatureCall ==
    /\ \E batch \in BatchesOf(HeatTs, [t \in HeatTs |-> TemperatureRec(t)]) :
          /\ artifacts' = write_temperature_events(artifacts, "s1", batch, 0).arts
          /\ last_write' = WriteRecord("write_temperature_events", batch, <<>>)
    /\ UNCHANGED <<state_blob, cfg, pc, now, meter_idx, success_count,
                   error_count, devices, per_device_start, day_cursor, dev_idx,
                   success, errors, total_success, total_errors, outcome, pass,
                   log, fatal, plan_read_failed, gaps>>
    /\ UNCHANGED storeVars
    /\ UNCHANGED toolVars

\* writer.write_partitioned_data(batch, path_formatter, partition_column,
\* dedup_columns) returns.  partition_column is 'date', a column of the
\* records, or 'day', which is none; dedup_columns is None or the interval
\* bounds.
WritePartitionedCall ==
    /\ \E batch \in BatchesOf({D0 * Day + 22 * Hour + HalfHour,
                               D0 * Day + 23 * Hour + HalfHour},
                              [t \in Slots |-> PartitionedRec(t)]),
          fmt \in PathFormatters,
          partition_column \in {"date", "day"},
          dedup_columns \in {{}, {"interval_start", "interval_end"}} :
          /\ artifacts' = write_partitioned_data(artifacts, batch, fmt,
                                                 partition_column, dedup_columns)
          /\ last_write' = WriteRecord("write_partitioned_data", batch,
                                       <<fmt, partition_column, dedup_columns>>)
    /\ UNCHANGED <<state_blob, cfg, pc, now, meter_idx, success_count,
                   error_count, devices, per_device_start, day_cursor, dev_idx,
                   success, errors, total_success, total_errors, outcome, pass,
                   log, fatal, plan_read_failed, gaps>>
    /\ UNCHANGED storeVars
    /\ UNCHANGED toolVars

NextWriter ==
    \/ WriteConsumptionCall
    \/ WriteDemandCall
    \/ WriteTemperatureCall
    \/ WritePartitionedCall

SpecWriter == InitWriter /\ [][NextWriter]_vars

----------------------------------------------------------------------------
(* Writer: properties *)

\* The record kind, the partition date and the natural key of a row of the
\* artifact at a path.
RowKind(p, row) == IF p[1] = "consumption" THEN "consumption" ELSE row.kind
RowDate(p, row) ==
    IF p[1] = "consumption" THEN PartitionDate(row) ELSE EventDate(row)
NaturalKey(p, row) ==
    IF p[1] = "consumption" THEN <<row.interval_start, row.interval_end>>
    ELSE <<row.timestamp>>
KindsAt(arts, p) == {RowKind(p, arts[p][i]) : i \in 1..Len(arts[p])}

\* C12: every artifact holds only rows of its path's partition date, and a
\* writer call that changes an artifact leaves it with rows of the record
\* kind it held: no call replaces the artifact of another kind.
C12_PathInjective ==
    [][\A p \in Paths :
          /\ \A i \in 1..Len(artifacts'[p]) : RowDate(p, artifacts'[p][i]) = p[3]
          /\ (artifacts[p] # <<>> /\ artifacts'[p] # artifacts[p])
             => KindsAt(artifacts', p) = KindsAt(artifacts, p)]_vars

\* C13: no artifact holds two rows with the same natural key.
C13_NoDuplicateKeys ==
    \A p \in Paths :
       \A i, j \in 1..Len(artifacts[p]) :
          NaturalKey(p, artifacts[p][i]) = NaturalKey(p, artifacts[p][j])
          => i = j

\* The part of C13 that is about write_consumption: after a call, no
\* artifact of a date of the batch holds two rows with the same key.
ConsumptionNoDuplicateKeys ==
    [][last_write'.method = "write_consumption"
          => \A k \in 1..Len(last_write'.batch) :
                LET p == <<"consumption", "s1",
                           PartitionDate(ConsumptionRow(last_write'.batch[k]))>>
                IN  \A i, j \in 1..Len(artifacts'[p]) :
                       NaturalKey(p, artifacts'[p][i])
                          = NaturalKey(p, artifacts'[p][j])
                       => i = j]_vars

\* C14: a writer call that repeats the call before it, same method and same
\* batch, leaves every artifact as it was after the first call.
C14_IdempotentWrite ==
    [][last_write'.n = 2 => artifacts' = artifacts]_vars

\* write_consumption was called twice in a row with a batch that spans two
\* dates and repeats a record.
C14_Witness ==
    /\ last_write.n = 2
    /\ last_write.method = "write_consumption"
    /\ Len(last_write.batch) = 4
    /\ Len(artifacts[<<"consumption", "s1", D0>>]) = 2
    /\ Len(artifacts[<<"consumption", "s1", D1>>]) = 1

----------------------------------------------------------------------------
(* Window planning: properties *)

\* A step that is a consumption pass whose cursor read reached the blob.
ConsumptionPassRead ==
    PassStep /\ pass'.source = "octopus" /\ ~pass'.read_failed

\* The window of a consumption pass is [start, now): the pass planned one,
\* from start, and every record it fetched starts inside it.
WindowFrom(start) ==
    /\ pass'.stage # "plan"
    /\ pass'.start = start
    /\ \A i \in 1..Len(pass'.records) :
          /\ start <= ParseTs(pass'.records[i].interval_start)
          /\ ParseTs(pass'.records[i].interval_start) < now'

\* C15: a consumption pass of a stream with stored watermark W fetches
\* [max(W - 30 min - 1 s, 2015-01-01T00:00Z), now), which includes W; a pass
\* of a stream with no watermark fetches [now - 7 days, now).
C15_ConsumptionWindow ==
    [][ConsumptionPassRead
          => LET W == Watermark(state_blob["consumption"], pass'.key)
             IN  IF W.kind = "none"
                 THEN WindowFrom(now' - 7 * Day)
                 ELSE /\ WindowFrom(Max(W.t - (30 * 60 + 1), 16436 * Day))
                      /\ pass'.start <= W.t]_vars

\* C15 for the watermarks that carry a zone (Z or an offset).
ConsumptionWindowAware ==
    [][ConsumptionPassRead
          => LET W == Watermark(state_blob["consumption"], pass'.key)
             IN  IF W.kind = "none"
                 THEN WindowFrom(now' - 7 * Day)
                 ELSE W.kind = "aware"
                      => /\ WindowFrom(Max(W.t - (30 * 60 + 1), 16436 * Day))
                         /\ pass'.start <= W.t]_vars

----------------------------------------------------------------------------
(* Window planning over any stored watermark: one run of the scheduler up  *)
(* to the end of run_tado_ingestion's planning loop (line 214), started    *)
(* with cursor blobs that hold watermarks before, at and after the floor.  *)

\* Stored watermarks: none, 2014-12-31T12:00Z, 2015-01-01T00:10Z and
\* 2024-01-01T22:00Z.
PlanStored ==
    {Absent, StrZ(earliest_allowed - 12 * Hour),
     StrZ(earliest_allowed + 10 * 60), StrZ(D0 * Day + 22 * Hour)}

PlanBlobs ==
    {DocBlob([k \in StreamKeys |-> IF k = "s1" THEN a ELSE b]) :
        a \in PlanStored, b \in {Absent, StrZ(earliest_allowed - 12 * Hour)}}

InitPlan ==
    /\ cfg \in Configs
    /\ state_blob \in [Containers -> PlanBlobs \cup {MissingBlob}]
    /\ state_blob["consumption"] = MissingBlob <=> cfg.skip_octopus
    /\ state_blob["heating"] = MissingBlob <=> cfg.skip_tado
    /\ cl = [c \in Clients |-> IdleCall]
    /\ ver = 0
    /\ ops = 0
    /\ last_get = NoGet
    /\ done_set = [c \in Clients |-> NoSet]
    /\ SchedIdle
    /\ last_write = NoWrite
    /\ ToolsIdle

NextPlan ==
    \/ StartRun
    \/ OctopusBegin
    \/ OctopusMeter
    \/ OctopusReturn
    \/ TadoBegin

SpecPlan == InitPlan /\ [][NextPlan]_vars

\* C16: every window planned starts at or after 2015-01-01T00:00:00Z: that
\* of a consumption pass, and that of each heating device.
C16_FloorClamp ==
    [][/\ (PassStep /\ pass'.source = "octopus" /\ pass'.stage # "plan")
          => pass'.start >= 16436 * Day
       /\ (pc = "tado_begin" /\ pc' = "tado")
          => \A d \in Range(devices') : per_device_start'[d] >= 16436 * Day]_vars

\* The part of C16 that is about consumption streams.
ConsumptionFloorClamp ==
    [][(PassStep /\ pass'.source = "octopus" /\ pass'.stage # "plan")
          => pass'.start >= 16436 * Day]_vars

\* The days on which the run asked for the day report of a device, in the
\* order of the requests.
DaysRequested(d) ==
    LET q == SelectSeq(LogOf("tado"), LAMBDA e : e.key = d)
    IN  [i \in 1..Len(q) |-> q[i].date]

\* The days the run asks the day report of a device for when its window
\* starts at start and the device is processed at t, in ascending order.
DaysFrom(start, t) ==
    SortedSeq({day \in (D0 - 9)..D1 : day >= DateOf(start) /\ day <= DateOf(t)})

\* The start of the window of a heating device with stored watermark W
\* processed at t: 00:00 of the date of W, or t - 1 hour without watermark.
HeatingStart(W, t) ==
    IF W.kind = "none" THEN t - 3600 ELSE (W.t \div (24 * 3600)) * 24 * 3600

\* C17: a heating device with stored watermark W starts at 00:00 of the date
\* of W, one without watermark at now - 1 hour; and the run asks for the
\* device's day report of every day from the date of its start to today, in
\* ascending order, and of no other day.
C17_HeatingWindow ==
    [][/\ (pc = "tado_begin" /\ pc' = "tado")
          => \A d \in Range(devices') :
                per_device_start'[d]
                   = HeatingStart(Watermark(state_blob["heating"], d), now')
       /\ PlanningRaised
          => \A d \in Range(cfg.trvs) :
                DaysRequested(d)
                   = DaysFrom(HeatingStart(Watermark(state_blob["heating"], d),
                                           now'), now')
       /\ (pc = "tado" /\ pc' = "finish")
          => \A d \in Range(devices) :
                DaysRequested(d) = DaysFrom(per_device_start[d], now)]_vars

\* What holds: a device whose cursor read returned a watermark starts at
\* 00:00 of its date, one whose read returned None at now - 1 hour; and when
\* the day loop ends the run has asked for the device's day report of every
\* day from the date of its start to today, in ascending order, and of no
\* other day.
HeatingWindowWhenPlanned ==
    [][/\ (pc = "tado_begin" /\ pc' = "tado")
          => \A d \in Range(devices') :
                per_device_start'[d]
                   = HeatingStart(IF plan_read_failed'[d] THEN None
                                  ELSE Watermark(state_blob["heating"], d), now')
       /\ (pc = "tado" /\ pc' = "finish")
          => \A d \in Range(devices) :
                DaysRequested(d) = DaysFrom(per_device_start[d], now)]_vars

----------------------------------------------------------------------------
(* Cursor store: what get returns and what set stores *)

\* The get read the document as it is now and reached the value under its key.
GetReadCurrent ==
    /\ last_get.n > 0
    /\ last_get.dlOk
    /\ last_get.ver = ver
    /\ state_blob["consumption"].kind = "doc"

\* C18: get returns a timezone-aware UTC datetime for every parseable stored
\* value, with Z suffix, with an explicit offset or without offset; so a get
\* that returns a datetime returns an aware one.
C18_GetReturnsAware ==
    (last_get.n > 0 /\ last_get.res.value # None)
        => last_get.res.value.kind = "aware"

\* What does hold: a stored value with Z or an explicit offset is returned
\* aware, as the instant it denotes.
GetReturnsAwareForZoned ==
    (GetReadCurrent
     /\ state_blob["consumption"].map[last_get.key].fmt \in {"Z", "offset"})
        => LET val == state_blob["consumption"].map[last_get.key]
           IN  last_get.res.value = Aware(val.wall - val.off)

\* C19: every value a set writes into the cursor document is a timestamp
\* string in the Z-suffixed form, whatever the argument of the set.
C19_StoredCanonical ==
    \A c \in Clients : done_set[c].done => done_set[c].stored.fmt = "Z"

\* What does hold: the value stored for an aware datetime is Z-suffixed.
StoredCanonicalForAware ==
    \A c \in Clients :
        (done_set[c].done
         /\ \E arg \in SetArgs : arg.kind = "aware" /\ StoredOf(arg) = done_set[c].stored)
            => done_set[c].stored.fmt = "Z"

\* The completed set of client c is the latest upload, and the get read the
\* document it uploaded, under the same key.
GetAfterSet(c) ==
    /\ done_set[c].done
    /\ done_set[c].upVer = ver
    /\ GetReadCurrent
    /\ last_get.key = done_set[c].key

\* C20: a get on a key that is not in the document returns None; a get that
\* follows set(key, ts) returns a datetime equal to ts, for an aware and for
\* a naive ts; after a second set on the key it is the ts of that second set.
C20_RoundTrip ==
    /\ (GetReadCurrent
        /\ state_blob["consumption"].map[last_get.key] = Absent)
           => last_get.res.value = None
    /\ \A c \in Clients : GetAfterSet(c) =>
          \A arg \in SetArgs :
              (arg.kind # "str" /\ StoredOf(arg) = done_set[c].stored)
                 => last_get.res.value = [kind |-> arg.kind, t |-> arg.t]

\* Two sets on one key, the naive 01:00 after the aware 01:30, then a get of
\* the key: it returns the naive 01:00 of the second set.
C20_Witness ==
    \E a, b \in Clients :
        /\ a # b
        /\ done_set[a].done /\ done_set[a].upVer = ver - 1
        /\ done_set[a].key = done_set[b].key
        /\ done_set[a].stored = StrZ(StoreT2)
        /\ GetAfterSet(b)
        /\ done_set[b].stored = StrNaive(StoreT1)
        /\ last_get.res.value = Naive(StoreT1)

----------------------------------------------------------------------------
(* tadoclient/client.py: parse_day_report, and the device-day pass of      *)
(* run_tado_ingestion run on raw day reports                               *)

\* Entries of a raw dayReport.  value of a callForHeat interval is "NONE" or a
\* level; celsius is "num" for an int or float and "bad" for anything else;
\* an entry without "from" or "timestamp" has NoneTs there.
HeatInterval(from, value) == [from |-> from, value |-> value]
TempPoint(ts, celsius) == [timestamp |-> ts, celsius |-> celsius]
SettingInterval(from, power, celsius) ==
    [from |-> from, power |-> power, celsius |-> celsius]

\* parse_day_report(device, day_data), lines 692-770.  A callForHeat interval
\* is appended unless its value is "NONE", with timestamp = interval.get("from")
\* whether or not the key is there; an insideTemperature point and an ON
\* setting are appended only with a timestamp and a numeric celsius.  (The
\* humidity lookup adds a field to an inside record and is left out.)
parse_day_report(device, day_data) ==
    LET intervals == SelectSeq(day_data.callForHeat, LAMBDA i : i.value # "NONE")
        points == SelectSeq(day_data.insideTemperature,
                            LAMBDA tp : tp.timestamp # NoneTs /\ tp.celsius = "num")
        targets == SelectSeq(day_data.settings,
                             LAMBDA si : /\ si.power = "ON"
                                         /\ si.from # NoneTs
                                         /\ si.celsius = "num")
    IN  [demand |-> [i \in 1..Len(intervals) |->
                        [kind |-> "demand", timestamp |-> intervals[i].from]],
         temps |-> [i \in 1..Len(points) |->
                       [kind |-> "temp", timestamp |-> points[i].timestamp]]
                   \o [i \in 1..Len(targets) |->
                          [kind |-> "target", timestamp |-> targets[i].from]]]

\* The day reports of 2024-01-02 the model fetches: entries at 00:30 and
\* 01:00, well formed, without timestamp, or with a non-numeric value.
ReportT1 == D1 * Day + HalfHour
ReportT2 == D1 * Day + Hour

Reports ==
    [callForHeat :
        {<<>>, <<HeatInterval(VendorTs(ReportT1, 0), "HIGH")>>,
         <<HeatInterval(NoneTs, "HIGH")>>,
         <<HeatInterval(VendorTs(ReportT1, 0), "HIGH"), HeatInterval(NoneTs, "LOW")>>,
         <<HeatInterval(VendorTs(ReportT1, 0), "HIGH"),
           HeatInterval(VendorTs(ReportT2, 0), "NONE")>>},
     insideTemperature :
        {<<>>, <<TempPoint(VendorTs(ReportT1, 0), "num")>>,
         <<TempPoint(VendorTs(ReportT1, 0), "num"), TempPoint(NoneTs, "num")>>,
         <<TempPoint(VendorTs(ReportT1, 0), "num"),
           TempPoint(VendorTs(ReportT2, 0), "bad")>>},
     settings :
        {<<>>, <<SettingInterval(VendorTs(ReportT2, 0), "ON", "num")>>,
         <<SettingInterval(VendorTs(ReportT2, 0), "ON", "bad")>>}]

MaxReportPasses == 2

\* Device s1 before its first pass (no cursor blob) or with the watermark
\* 2024-01-01T22:00Z of an earlier run.
InitReport ==
    /\ state_blob \in [Containers ->
                          {MissingBlob,
                           DocBlob([EmptyMap EXCEPT
                                       !["s1"] = StrZ(D0 * Day + 22 * Hour)])}]
    /\ state_blob["consumption"] = MissingBlob
    /\ cl = [c \in Clients |-> IdleCall]
    /\ ver = 0
    /\ ops = 0
    /\ last_get = NoGet
    /\ done_set = [c \in Clients |-> NoSet]
    /\ cfg = [skip_octopus |-> TRUE, skip_tado |-> FALSE, meters |-> <<>>,
              trvs |-> <<"s1">>]
    /\ SchedIdle
    /\ last_write = NoWrite
    /\ ToolsIdle

\* Lines 227-259 for device s1 on 2024-01-02, with the report as input: the
\* fetch returns it, and no storage call fails.
ReportDeviceDay ==
    /\ success + errors < MaxReportPasses
    /\ \E day_data \in Reports :
          LET parsed == parse_day_report("s1", day_data)
              in == [fetchOk |-> TRUE, demand |-> parsed.demand,
                     temps |-> parsed.temps, getOk |-> TRUE,
                     failAtD |-> 0, failAtT |-> 0,
                     setDlOk |-> TRUE, setUpOk |-> TRUE]
              r == device_day(state_blob["heating"], artifacts, "s1", in)
              counts == CountPass(success, errors, r.raised)
          IN  /\ report' = day_data
              /\ state_blob' = [state_blob EXCEPT !["heating"] = r.blob]
              /\ artifacts' = r.arts
              /\ success' = counts[1]
              /\ errors' = counts[2]
              /\ pass' = [source |-> "tado", key |-> "s1", date |-> D1,
                          raised |-> r.raised, stage |-> r.stage,
                          start |-> 0, read_failed |-> FALSE,
                          set_called |-> r.set_called, fetched |-> r.written,
                          records |-> <<>>,
                          returned |-> Returned(TRUE, Len(parsed.demand)
                                                        + Len(parsed.temps))]
    /\ UNCHANGED <<cfg, pc, now, meter_idx, success_count, error_count, devices,
                   per_device_start, day_cursor, dev_idx, total_success,
                   total_errors, outcome, log, fatal, plan_read_failed, gaps>>
    /\ UNCHANGED storeVars
    /\ UNCHANGED writerVars
    /\ UNCHANGED <<http, tado_http, backfill, enrich, token>>

NextReport == ReportDeviceDay

SpecReport == InitReport /\ [][NextReport]_vars

\* An entry of a report is malformed: it has no timestamp, or its value is
\* not a number.
Malformed(day_data) ==
    \/ \E i \in Range(day_data.callForHeat) : i.from = NoneTs
    \/ \E tp \in Range(day_data.insideTemperature) :
          tp.timestamp = NoneTs \/ tp.celsius = "bad"
    \/ \E si \in Range(day_data.settings) : si.from = NoneTs \/ si.celsius = "bad"

\* The well-formed entries of a report that give a record, as instants.
WellFormedTs(day_data) ==
    {ParseTs(i.from) : i \in {j \in Range(day_data.callForHeat) :
                                 j.from # NoneTs /\ j.value # "NONE"}}
    \cup {ParseTs(tp.timestamp) :
             tp \in {q \in Range(day_data.insideTemperature) :
                        q.timestamp # NoneTs /\ q.celsius = "num"}}
    \cup {ParseTs(si.from) :
             si \in {q \in Range(day_data.settings) :
                        q.from # NoneTs /\ q.celsius = "num" /\ q.power = "ON"}}

ReportStep == success' + errors' = success + errors + 1

\* C21: a device-day pass on a report with a malformed entry does not raise
\* and is not counted as an error, with or without a prior watermark, and
\* the cursor reaches the latest well-formed record of the report that is
\* newer than the watermark (that record was written).
C21_MalformedSkipped ==
    [][(ReportStep /\ Malformed(report'))
          => /\ ~pass'.raised
             /\ errors' = errors
             /\ \A t \in WellFormedTs(report') :
                   LET W == Watermark(state_blob["heating"], "s1")
                   IN  (W.kind = "none" \/ t > W.t)
                          => /\ Watermark(state_blob'["heating"], "s1").kind = "aware"
                             /\ Watermark(state_blob'["heating"], "s1").t >= t]_vars

\* What does hold: malformed temperature points and settings are skipped
\* in every pass, and a callForHeat interval without "from" is skipped in a
\* pass that found no watermark.
MalformedSkippedElsewhere ==
    [][(ReportStep /\ Malformed(report')
        /\ (\/ Watermark(state_blob["heating"], "s1").kind = "none"
            \/ \A i \in Range(report'.callForHeat) : i.from # NoneTs))
          => /\ ~pass'.raised
             /\ errors' = errors
             /\ \A t \in WellFormedTs(report') :
                   LET W == Watermark(state_blob["heating"], "s1")
                   IN  (W.kind = "none" \/ t > W.t)
                          => /\ Watermark(state_blob'["heating"], "s1").kind = "aware"
                             /\ Watermark(state_blob'["heating"], "s1").t >= t]_vars

----------------------------------------------------------------------------
(* octopusclient/client.py: OctopusClient._get, _paginate, get_consumption, *)
(* called by ingest_meter_consumption for meter s1                          *)

\* What one self._client.get(url, params) can give:
\*   "ok"          status 2xx, a JSON object (with or without "results")
\*   "status_5xx"  status 500..599
\*   "status_4xx"  status 400..499
\*   "empty"       status 2xx, empty body
\*   "nonjson"     status 2xx, a body that is not JSON
\*   "neterr"      the call raised an httpx.HTTPError (connect, timeout, ...)
Outcomes == {"ok", "status_5xx", "status_4xx", "empty", "nonjson", "neterr"}

\* @retry(stop=stop_after_attempt(5), ...)
MaxAttempts == 5

\* retry=retry_if_exception_type(httpx.HTTPError): _get is called again only
\* when the attempt raised an httpx.HTTPError.  The OctopusError raised for a
\* status >= 400, an empty body or a non-JSON body is not one.
RetryableMutAll(out) == out # "ok"

Retryable(out) == out = "neterr"

\* tenacity's decision after the attempt-th attempt of a _get call raised:
\* call _get again when the exception is of the retried type and fewer than
\* stop_after_attempt attempts were made; otherwise re-raise (reraise=True).
ShouldRetryMutOneMore(out, attempt) ==
    Retryable(out) /\ attempt < MaxAttempts + 1

ShouldRetry(out, attempt) ==
    Retryable(out) /\ attempt < MaxAttempts

\* results.extend(objs)
ExtendMutPrepend(results, objs) == objs \o results

Extend(results, objs) == results \o objs

\* The record page p of the vendor's answer can carry.
PageRec(p) == ConsumptionRec(D0 * Day + 22 * Hour + p * HalfHour)

MaxPages == 3
MaxClientPasses == 1

\* The JSON objects the vendor can answer page p with: "results" is absent, an
\* empty list or one record; "next" is a URL or null (null on the last page
\* the model lets the vendor have).
Bodies(p) ==
    [has_results : BOOLEAN, results : {<<>>, <<PageRec(p)>>}, next : BOOLEAN]
    \ {b \in [has_results : BOOLEAN, results : {<<>>, <<PageRec(p)>>},
              next : BOOLEAN] :
          \/ ~b.has_results /\ b.results # <<>>
          \/ b.next /\ p >= MaxPages}

NoBody == [has_results |-> FALSE, results |-> <<>>, next |-> FALSE]

\* objs = data.get('results', [])
ResultsOf(data) == IF data.has_results THEN data.results ELSE <<>>

InitClient ==
    /\ state_blob = [c \in Containers |-> MissingBlob]
    /\ cl = [c \in Clients |-> IdleCall]
    /\ ver = 0
    /\ ops = 0
    /\ last_get = NoGet
    /\ done_set = [c \in Clients |-> NoSet]
    /\ cfg = [skip_octopus |-> FALSE, skip_tado |-> TRUE, meters |-> <<"s1">>,
              trvs |-> <<>>]
    /\ artifacts = NoArtifacts
    /\ pc = "octopus"
    /\ now = D0 * Day + 23 * Hour + 40 * 60
    /\ meter_idx = 1
    /\ success_count = 0
    /\ error_count = 0
    /\ devices = <<>>
    /\ per_device_start = [k \in StreamKeys |-> 0]
    /\ day_cursor = 0
    /\ dev_idx = 1
    /\ success = 0
    /\ errors = 0
    /\ total_success = 0
    /\ total_errors = 0
    /\ outcome = "none"
    /\ pass = NoPass
    /\ log = <<>>
    /\ fatal = {}
    /\ plan_read_failed = [k \in StreamKeys |-> FALSE]
    /\ gaps = [p \in Containers \X StreamKeys |-> {}]
    /\ last_write = NoWrite
    /\ ToolsIdle

\* ingest_meter_consumption, lines 107-139: the pass reads the clock (line
\* 118) and calls get_consumption, and _paginate starts: results = [],
\* page = 1.
ClientBegin ==
    /\ http.pc \in {"idle", "done_returned", "done_raised"}
    /\ success_count + error_count < MaxClientPasses
    /\ now' \in ClockReads(now)
    /\ http' = [pc |-> "get", page |-> 1, attempt |-> 0, results |-> <<>>,
                requests |-> <<>>]
    /\ UNCHANGED <<state_blob, artifacts, cfg, pc, meter_idx, success_count,
                   error_count, devices, per_device_start, day_cursor, dev_idx,
                   success, errors, total_success, total_errors, outcome, pass,
                   log, fatal, plan_read_failed, gaps>>
    /\ UNCHANGED storeVars
    /\ UNCHANGED writerVars
    /\ UNCHANGED <<report, tado_http, backfill, enrich, token>>

\* One attempt of _get for the current page (lines 33-51) and what _paginate
\* does with its result (lines 59-67).
ClientRequest ==
    /\ http.pc = "get"
    /\ \E out \in Outcomes, data \in Bodies(http.page) :
          LET body == IF out = "ok" THEN data ELSE NoBody
              req == [page |-> http.page, attempt |-> http.attempt + 1,
                      outcome |-> out, body |-> body]
              reqs == Append(http.requests, req)
          IN  /\ (out # "ok" => data = CHOOSE b \in Bodies(http.page) : TRUE)
              /\ http' =
                   IF out = "ok"
                   THEN IF body.next
                        THEN [pc |-> "get", page |-> http.page + 1, attempt |-> 0,
                              results |-> Extend(http.results, ResultsOf(body)),
                              requests |-> reqs]
                        ELSE [http EXCEPT !.pc = "returned",
                                 !.attempt = http.attempt + 1,
                                 !.results = Extend(http.results, ResultsOf(body)),
                                 !.requests = reqs]
                   ELSE IF ShouldRetry(out, http.attempt + 1)
                   THEN [http EXCEPT !.attempt = http.attempt + 1,
                                     !.requests = reqs]
                   ELSE [http EXCEPT !.pc = "raised",
                                     !.attempt = http.attempt + 1,
                                     !.requests = reqs]
    /\ UNCHANGED <<state_blob, artifacts, cfg, pc, now, meter_idx, success_count,
                   error_count, devices, per_device_start, day_cursor, dev_idx,
                   success, errors, total_success, total_errors, outcome, pass,
                   log, fatal, plan_read_failed, gaps>>
    /\ UNCHANGED storeVars
    /\ UNCHANGED writerVars
    /\ UNCHANGED <<report, tado_http, backfill, enrich, token>>

\* get_consumption returned or raised: the rest of ingest_meter_consumption
\* (lines 140-169) and the try/except of run_octopus_ingestion (lines 84-98),
\* with no storage call failing.
ClientFinish ==
    /\ http.pc \in {"returned", "raised"}
    /\ LET in == [getOk |-> TRUE, fetchOk |-> http.pc = "returned",
                  records |-> http.results, failAt |-> 0,
                  setDlOk |-> TRUE, setUpOk |-> TRUE]
           r == ingest_meter_consumption(state_blob["consumption"], artifacts,
                                         "s1", now, in)
           counts == CountPass(success_count, error_count, r.raised)
       IN  /\ state_blob' = [state_blob EXCEPT !["consumption"] = r.blob]
           /\ artifacts' = r.arts
           /\ success_count' = counts[1]
           /\ error_count' = counts[2]
           /\ pass' = [source |-> "octopus", key |-> "s1", date |-> 0,
                       raised |-> r.raised, stage |-> r.stage, start |-> r.start,
                       read_failed |-> FALSE, set_called |-> r.set_called,
                       fetched |-> Len(http.results), records |-> <<>>,
                       returned |-> Returned(in.fetchOk, Len(http.results))]
    /\ http' = [http EXCEPT !.pc = IF http.pc = "returned" THEN "done_returned"
                                   ELSE "done_raised"]
    /\ UNCHANGED <<cfg, pc, now, meter_idx, devices, per_device_start, day_cursor,
                   dev_idx, success, errors, total_success, total_errors, outcome,
                   log, fatal, plan_read_failed, gaps>>
    /\ UNCHANGED storeVars
    /\ UNCHANGED writerVars
    /\ UNCHANGED <<report, tado_http, backfill, enrich, token>>

NextClient == ClientBegin \/ ClientRequest \/ ClientFinish

SpecClient == InitClient /\ [][NextClient]_vars

----------------------------------------------------------------------------
(* The Octopus client: properties *)

\* A step that is one request, and the request.
RequestStep == Len(http'.requests) = Len(http.requests) + 1
LastRequest == http'.requests[Len(http'.requests)]

\* A step in which the meter pass is counted.
CountStep == success_count' + error_count' = success_count + error_count + 1

\* C22: a fetch that receives a 5xx response is retried while attempts are
\* left: after a 5xx that is not the last attempt allowed the same page is
\* requested again, and the fetch raises only when the attempts are used up.
C22_ServerErrorRetried ==
    [][(RequestStep /\ LastRequest.outcome = "status_5xx"
        /\ LastRequest.attempt < MaxAttempts)
          => /\ http'.pc = "get"
             /\ http'.page = http.page]_vars

\* What does hold: a request that raised an httpx.HTTPError is retried, up
\* to five attempts per page, and the fetch raises after the fifth.
TransportErrorRetried ==
    [][(RequestStep /\ LastRequest.outcome = "neterr")
          => IF LastRequest.attempt < MaxAttempts
             THEN http'.pc = "get" /\ http'.page = http.page
             ELSE http'.pc = "raised"]_vars

\* The response of a request has an empty body or a body that is not JSON.
MalformedBody(req) == req.outcome \in {"empty", "nonjson"}

\* C23: a response with an empty or non-JSON body is never retried: the
\* request that received it is the last one of the fetch, the fetch raises,
\* and the meter is counted as one error and not as a success.
C23_MalformedNotRetried ==
    /\ [][(RequestStep /\ MalformedBody(LastRequest)) => http'.pc = "raised"]_vars
    /\ [](\A i \in 1..(Len(http.requests) - 1) : ~MalformedBody(http.requests[i]))
    /\ [][(CountStep /\ http.requests # <<>>
           /\ MalformedBody(http.requests[Len(http.requests)]))
             => /\ error_count' = error_count + 1
                /\ success_count' = success_count]_vars

\* Page 1 was fetched, page 2 came back as a body that is not JSON after one
\* transport error: no third request for page 2, and one error counted.
C23_Witness ==
    /\ http.pc = "done_raised"
    /\ Len(http.requests) = 3
    /\ http.requests[1].outcome = "ok"
    /\ http.requests[2].outcome = "neterr" /\ http.requests[2].page = 2
    /\ http.requests[3].outcome = "nonjson" /\ http.requests[3].page = 2
    /\ error_count = 1 /\ success_count = 0

\* C24: a 2xx JSON response without a results field makes the stream an
\* error: the meter pass whose fetch received one is counted as an error, not
\* as a success.
C24_MissingResultsIsError ==
    [][(CountStep
        /\ \E i \in 1..Len(http.requests) :
              /\ http.requests[i].outcome = "ok"
              /\ ~http.requests[i].body.has_results)
          => /\ error_count' = error_count + 1
             /\ success_count' = success_count]_vars

\* The 2xx JSON responses of a fetch, in order, and their results.
OkRequests(reqs) == SelectSeq(reqs, LAMBDA q : q.outcome = "ok")

RECURSIVE ConcatResults(_)
ConcatResults(oks) ==
    IF oks = <<>> THEN <<>>
    ELSE ConcatResults(SubSeq(oks, 1, Len(oks) - 1))
            \o ResultsOf(oks[Len(oks)].body)

\* C28: a paginated fetch requests pages 1, 2, 3, ... in order (the page of a
\* request is one more than the number of pages received before it), goes on
\* exactly while the page received has a next field, and returns the
\* concatenation of the results of the pages received, in order.
C28_Pagination ==
    /\ \A i \in 1..Len(http.requests) :
          http.requests[i].page
             = 1 + Len(OkRequests(SubSeq(http.requests, 1, i - 1)))
    /\ LET oks == OkRequests(http.requests) IN
       /\ \A i \in 1..(Len(oks) - 1) : oks[i].body.next
       /\ http.pc \in {"returned", "done_returned"}
             => /\ oks # <<>>
                /\ ~oks[Len(oks)].body.next
                /\ http.results = ConcatResults(oks)
       /\ http.pc \in {"get", "raised", "done_raised"}
             => (oks # <<>> => oks[Len(oks)].body.next)

\* Three pages were fetched, one record each: the fetch returned the three
\* records in page order.
C28_Witness ==
    /\ http.pc = "returned"
    /\ Len(http.requests) = 3
    /\ http.requests[3].page = 3
    /\ http.results = <<PageRec(1), PageRec(2), PageRec(3)>>

----------------------------------------------------------------------------
(* tadoclient/client.py: TadoClient.get_day_report, called by the device-day *)
(* loop of run_tado_ingestion after authenticate_from_key_vault succeeded    *)

\* What httpx.get of the dayReport URL can give: a 2xx response, a 401 (the
\* access token is not accepted), a 5xx, or an exception of the transport.
TadoOutcomes == {"ok", "status_401", "status_5xx", "neterr"}

MaxTadoCalls == 3

\* An empty day report, what a returned fetch carries in this model.
EmptyReport == [callForHeat |-> <<>>, insideTemperature |-> <<>>, settings |-> <<>>]

InitTado ==
    /\ state_blob = [c \in Containers |-> MissingBlob]
    /\ cl = [c \in Clients |-> IdleCall]
    /\ ver = 0
    /\ ops = 0
    /\ last_get = NoGet
    /\ done_set = [c \in Clients |-> NoSet]
    /\ cfg = [skip_octopus |-> TRUE, skip_tado |-> FALSE, meters |-> <<>>,
              trvs |-> <<"s1">>]
    /\ SchedIdle
    /\ last_write = NoWrite
    /\ ToolsIdle

\* Line 230 calls get_day_report (lines 674-679): the access token is set, so
\* authenticate() is not called.  Since the token was obtained, 80% of its
\* lifetime may have passed (stale) and the server may have stopped accepting
\* it (rejected).
TadoFetchBegin ==
    /\ tado_http.pc \in {"idle", "counted"}
    /\ success + errors < MaxTadoCalls
    /\ \E stale \in BOOLEAN, rejected \in BOOLEAN :
          tado_http' = [pc |-> "ensure",
                        stale |-> tado_http.stale \/ stale,
                        rejected |-> tado_http.rejected \/ rejected,
                        refreshes |-> 0, requests |-> 0, status |-> "none"]
    /\ UNCHANGED <<state_blob, artifacts, cfg, pc, now, meter_idx, success_count,
                   error_count, devices, per_device_start, day_cursor, dev_idx,
                   success, errors, total_success, total_errors, outcome, pass,
                   log, fatal, plan_read_failed, gaps>>
    /\ UNCHANGED storeVars
    /\ UNCHANGED writerVars
    /\ UNCHANGED <<report, http, backfill, enrich, token>>

\* _ensure_valid_token (lines 233-265), called before the request: a stale
\* token is refreshed once; a refresh that raises is logged and the old token
\* is kept.
TadoEnsureToken ==
    /\ tado_http.pc = "ensure"
    /\ IF tado_http.stale
       THEN \E ok \in BOOLEAN :
               tado_http' = [tado_http EXCEPT
                                !.pc = "request",
                                !.refreshes = @ + 1,
                                !.stale = IF ok THEN FALSE ELSE @,
                                !.rejected = IF ok THEN FALSE ELSE @]
       ELSE tado_http' = [tado_http EXCEPT !.pc = "request"]
    /\ UNCHANGED <<state_blob, artifacts, cfg, pc, now, meter_idx, success_count,
                   error_count, devices, per_device_start, day_cursor, dev_idx,
                   success, errors, total_success, total_errors, outcome, pass,
                   log, fatal, plan_read_failed, gaps>>
    /\ UNCHANGED storeVars
    /\ UNCHANGED writerVars
    /\ UNCHANGED <<report, http, backfill, enrich, token>>

\* Lines 685-690: one httpx.get, resp.raise_for_status(), return resp.json().
\* A status >= 400 raises httpx.HTTPStatusError out of get_day_report.
TadoRequest ==
    /\ tado_http.pc = "request"
    /\ \E out \in TadoOutcomes :
          /\ (out = "status_401") = tado_http.rejected
          /\ tado_http' = [tado_http EXCEPT
                              !.pc = IF out = "ok" THEN "returned" ELSE "raised",
                              !.requests = @ + 1,
                              !.status = out]
    /\ UNCHANGED <<state_blob, artifacts, cfg, pc, now, meter_idx, success_count,
                   error_count, devices, per_device_start, day_cursor, dev_idx,
                   success, errors, total_success, total_errors, outcome, pass,
                   log, fatal, plan_read_failed, gaps>>
    /\ UNCHANGED storeVars
    /\ UNCHANGED writerVars
    /\ UNCHANGED <<report, http, backfill, enrich, token>>

\* The rest of the device-day pass (lines 231-259) on what get_day_report
\* gave: the pass is counted as a success or as an error.
TadoFetchEnd ==
    /\ tado_http.pc \in {"returned", "raised"}
    /\ LET parsed == parse_day_report("s1", EmptyReport)
           in == [fetchOk |-> tado_http.pc = "returned",
                  demand |-> parsed.demand, temps |-> parsed.temps,
                  getOk |-> TRUE, failAtD |-> 0, failAtT |-> 0,
                  setDlOk |-> TRUE, setUpOk |-> TRUE]
           r == device_day(state_blob["heating"], artifacts, "s1", in)
           counts == CountPass(success, errors, r.raised)
       IN  /\ state_blob' = [state_blob EXCEPT !["heating"] = r.blob]
           /\ artifacts' = r.arts
           /\ success' = counts[1]
           /\ errors' = counts[2]
           /\ pass' = [source |-> "tado", key |-> "s1", date |-> D1,
                       raised |-> r.raised, stage |-> r.stage, start |-> 0,
                       read_failed |-> FALSE, set_called |-> r.set_called,
                       fetched |-> r.written, records |-> <<>>,
                       returned |-> Returned(in.fetchOk, 0)]
    /\ tado_http' = [tado_http EXCEPT !.pc = "counted"]
    /\ UNCHANGED <<cfg, pc, now, meter_idx, success_count, error_count, devices,
                   per_device_start, day_cursor, dev_idx, total_success,
                   total_errors, outcome, log, fatal, plan_read_failed, gaps>>
    /\ UNCHANGED storeVars
    /\ UNCHANGED writerVars
    /\ UNCHANGED <<report, http, backfill, enrich, token>>

NextTado == TadoFetchBegin \/ TadoEnsureToken \/ TadoRequest \/ TadoFetchEnd

SpecTado == InitTado /\ [][NextTado]_vars

\* C25: when the request of a heating fetch is answered with an
\* authentication failure, the client re-authenticates once and requests
\* again, so the fetch has not raised after one request; and a fetch that
\* raised on an authentication failure made two requests and one
\* re-authentication in between, and is fatal for the heating source.
C25_ReauthOnce ==
    /\ [][(tado_http.pc = "request" /\ tado_http'.status = "status_401"
           /\ tado_http.requests = 0)
             => tado_http'.pc # "raised"]_vars
    /\ [][(tado_http.pc = "raised" /\ tado_http.status = "status_401"
           /\ tado_http'.pc = "counted")
             => /\ tado_http.requests = 2
                /\ "tado" \in fatal']_vars

\* What does hold: a request answered with an authentication failure makes
\* get_day_report raise after that one request, without a refresh after it,
\* and the device-day is counted as one error; the source goes on.
AuthFailureIsDeviceDayError ==
    /\ [][(tado_http.pc = "request" /\ tado_http'.status = "status_401")
             => /\ tado_http'.pc = "raised"
                /\ tado_http'.requests = 1
                /\ tado_http'.refreshes = tado_http.refreshes]_vars
    /\ [][(tado_http.pc = "raised" /\ tado_http'.pc = "counted")
             => /\ errors' = errors + 1
                /\ success' = success
                /\ fatal' = fatal]_vars

----------------------------------------------------------------------------
(* scripts/backfill_tado_unified.py: main (streaming mode, lines 162-193),  *)
(* fetch_device_day_report and _write_day, for the TRVs s1 and s2 and the   *)
(* days --start 2024-01-01 --end 2024-01-02                                 *)

BackfillDevices == <<"s1", "s2">>
BackfillEnd == D1

\* --max-workers
WorkerChoices == {1, 2}

\* The dayReport of a device and day when its fetch succeeds: one callForHeat
\* interval and one inside temperature at 00:30 of the day.
DayReport(device, date) ==
    [callForHeat |-> <<HeatInterval(VendorTs(date * Day + HalfHour, 0), "HIGH")>>,
     insideTemperature |-> <<TempPoint(VendorTs(date * Day + HalfHour, 0), "num")>>,
     settings |-> <<>>]

\* The records of parse_day_report carry trv_id / device_id.
Tagged(device, recs) == [i \in 1..Len(recs) |-> [device |-> device, rec |-> recs[i]]]
RecsOf(device, tagged) ==
    LET q == SelectSeq(tagged, LAMBDA x : x.device = device)
    IN  [i \in 1..Len(q) |-> q[i].rec]

\* _write_day, lines 37-55, with an ADLS writer: for each trv_id of the
\* demand events write_demand_events, then for each device_id of the
\* temperature records write_temperature_events (groupby: ascending ids; a
\* device without records is in no group and write_events of an empty list
\* writes nothing).
RECURSIVE WriteDayGroups(_, _, _)
WriteDayGroups(arts, tagged, n) ==
    IF n = 0 THEN arts
    ELSE write_events(WriteDayGroups(arts, tagged, n - 1), BackfillDevices[n],
                      RecsOf(BackfillDevices[n], tagged), 0).arts

write_day(arts, all_demand, all_temps, dry_run) ==
    IF dry_run THEN arts
    ELSE WriteDayGroups(WriteDayGroups(arts, all_demand, Len(BackfillDevices)),
                        all_temps, Len(BackfillDevices))

BackfillEvent(ev, date, device, devs) ==
    [ev |-> ev, date |-> date, device |-> device, devices |-> devs]

InitBackfill ==
    /\ state_blob = [c \in Containers |-> MissingBlob]
    /\ cl = [c \in Clients |-> IdleCall]
    /\ ver = 0
    /\ ops = 0
    /\ last_get = NoGet
    /\ done_set = [c \in Clients |-> NoSet]
    /\ cfg = [skip_octopus |-> TRUE, skip_tado |-> TRUE, meters |-> <<>>,
              trvs |-> <<>>]
    /\ SchedIdle
    /\ last_write = NoWrite
    /\ report = NoReport
    /\ http = NoHttp
    /\ tado_http = NoTadoHttp
    /\ enrich = NoEnrich
    /\ token = NoToken
    /\ \E w \in WorkerChoices, dry \in BOOLEAN :
          backfill = [NoBackfill EXCEPT !.pc = "submit", !.current_date = D0,
                                        !.max_workers = w, !.dry_run = dry]

\* Lines 167-170: a day starts and its pool is created; no call has been
\* submitted to it, and all_demand, all_temps and success are those of the
\* day before.
BackfillDayStart ==
    /\ backfill.pc = "submit"
    /\ backfill.current_date <= BackfillEnd
    /\ backfill' = [backfill EXCEPT
                       !.pc = "submitting",
                       !.futures = [k \in StreamKeys |-> "none"],
                       !.collected = {}]
    /\ UNCHANGED <<state_blob, storeVars, schedVars, writerVars>>
    /\ UNCHANGED <<report, http, tado_http, enrich, token>>

\* Lines 171-174: one executor.submit(fetch_device_day_report, ...) of the
\* dict comprehension, for the next device in order; the pool threads run
\* between two submits.
BackfillSubmit ==
    /\ backfill.pc = "submitting"
    /\ \E n \in 1..Len(BackfillDevices) :
          /\ backfill.futures[BackfillDevices[n]] = "none"
          /\ \A m \in 1..(n - 1) : backfill.futures[BackfillDevices[m]] # "none"
          /\ backfill' = [backfill EXCEPT
                             !.futures[BackfillDevices[n]] = "queued",
                             !.pc = IF n = Len(BackfillDevices)
                                    THEN "reset_demand" ELSE "submitting"]
    /\ UNCHANGED <<state_blob, storeVars, schedVars, writerVars>>
    /\ UNCHANGED <<report, http, tado_http, enrich, token>>

\* Lines 175-177, one assignment at a time: all_demand = [], all_temps = [],
\* success = 0, while the pool threads run.
BackfillReset ==
    /\ backfill.pc \in {"reset_demand", "reset_temps", "reset_success"}
    /\ backfill' =
          IF backfill.pc = "reset_demand"
          THEN [backfill EXCEPT !.all_demand = <<>>, !.pc = "reset_temps"]
          ELSE IF backfill.pc = "reset_temps"
          THEN [backfill EXCEPT !.all_temps = <<>>, !.pc = "reset_success"]
          ELSE [backfill EXCEPT !.success = 0, !.pc = "pool"]
    /\ UNCHANGED <<state_blob, storeVars, schedVars, writerVars>>
    /\ UNCHANGED <<report, http, tado_http, enrich, token>>

\* The pool exists: main is between its creation (line 170) and the end of
\* the with block.
PoolOpen ==
    backfill.pc \in {"submitting", "reset_demand", "reset_temps",
                     "reset_success", "pool"}

\* The devices whose call a pool thread has taken from the queue, and those
\* whose fetch is in progress.
Taken == {d \in StreamKeys : backfill.futures[d] = "taken"}
Running == {d \in StreamKeys : backfill.futures[d] = "running"}

\* A pool thread that is free takes the next submitted call from the pool's
\* queue (first in, first out); the pool has max_workers threads.
WorkerTake ==
    /\ PoolOpen
    /\ Cardinality(Taken \cup Running) < backfill.max_workers
    /\ \E n \in 1..Len(BackfillDevices) :
          /\ backfill.futures[BackfillDevices[n]] = "queued"
          /\ \A m \in 1..(n - 1) : backfill.futures[BackfillDevices[m]] # "queued"
          /\ backfill' = [backfill EXCEPT
                             !.futures[BackfillDevices[n]] = "taken"]
    /\ UNCHANGED <<state_blob, storeVars, schedVars, writerVars>>
    /\ UNCHANGED <<report, http, tado_http, enrich, token>>

\* The thread that took a call runs it: fetch_device_day_report starts and
\* calls client.get_day_report (lines 69-72).  The threads that hold a call
\* start in any order.
WorkerStart ==
    /\ PoolOpen
    /\ \E d \in Taken :
          backfill' = [backfill EXCEPT
                          !.futures[d] = "running",
                          !.events = Append(@, BackfillEvent("fetch_start",
                                        backfill.current_date, d, {}))]
    /\ UNCHANGED <<state_blob, storeVars, schedVars, writerVars>>
    /\ UNCHANGED <<report, http, tado_http, enrich, token>>

\* fetch_device_day_report, lines 71-76: the result of the future when
\* get_day_report returned (the tuple) or raised (None, after a warning).
FutureResultMutRetry(ok) == IF ok THEN "ok" ELSE "queued"

FutureResult(ok) == IF ok THEN "ok" ELSE "failed"

\* fetch_device_day_report returns in its pool thread.
WorkerEnd ==
    /\ PoolOpen
    /\ \E d \in Running, ok \in BOOLEAN :
          backfill' = [backfill EXCEPT
                          !.futures[d] = FutureResult(ok),
                          !.events = Append(@, BackfillEvent(
                                        IF ok THEN "fetch_ok" ELSE "fetch_failed",
                                        backfill.current_date, d, {}))]
    /\ UNCHANGED <<state_blob, storeVars, schedVars, writerVars>>
    /\ UNCHANGED <<report, http, tado_http, enrich, token>>

\* Lines 178-185: as_completed yields a finished future; a result that is
\* not None is parsed and its records are added to the day's lists.
BackfillCollect ==
    /\ backfill.pc = "pool"
    /\ \E d \in StreamKeys \ backfill.collected :
          /\ backfill.futures[d] \in {"ok", "failed"}
          /\ LET parsed == parse_day_report(d, DayReport(d, backfill.current_date))
                 ok == backfill.futures[d] = "ok"
             IN  backfill' = [backfill EXCEPT
                    !.collected = @ \cup {d},
                    !.all_demand = IF ok THEN @ \o Tagged(d, parsed.demand) ELSE @,
                    !.all_temps = IF ok THEN @ \o Tagged(d, parsed.temps) ELSE @,
                    !.success = IF ok THEN @ + 1 ELSE @]
    /\ UNCHANGED <<state_blob, storeVars, schedVars, writerVars>>
    /\ UNCHANGED <<report, http, tado_http, enrich, token>>

\* The for loop over as_completed(future_to_device) ends when every future
\* submitted was yielded, and the with block when the pool has shut down.
AllCollectedMutAny == backfill.collected # {}

AllCollected == backfill.collected = StreamKeys

\* Lines 186-193: _write_day writes the day; then the next day.
BackfillWriteDay ==
    /\ backfill.pc = "pool"
    /\ AllCollected
    /\ artifacts' = write_day(artifacts, backfill.all_demand, backfill.all_temps,
                              backfill.dry_run)
    /\ backfill' = [backfill EXCEPT
                       !.pc = "submit",
                       !.current_date = @ + 1,
                       !.events = Append(@, BackfillEvent("write",
                                     backfill.current_date, "none",
                                     {x.device : x \in Range(backfill.all_demand
                                                             \o backfill.all_temps)}))]
    /\ UNCHANGED <<state_blob, cfg, pc, now, meter_idx, success_count,
                   error_count, devices, per_device_start, day_cursor, dev_idx,
                   success, errors, total_success, total_errors, outcome, pass,
                   log, fatal, plan_read_failed, gaps>>
    /\ UNCHANGED storeVars
    /\ UNCHANGED writerVars
    /\ UNCHANGED <<report, http, tado_http, enrich, token>>

\* Lines 195-204: the day loop is over.
BackfillDone ==
    /\ backfill.pc = "submit"
    /\ backfill.current_date > BackfillEnd
    /\ backfill' = [backfill EXCEPT !.pc = "done"]
    /\ UNCHANGED <<state_blob, storeVars, schedVars, writerVars>>
    /\ UNCHANGED <<report, http, tado_http, enrich, token>>

NextBackfill ==
    \/ BackfillDayStart
    \/ BackfillSubmit
    \/ BackfillReset
    \/ WorkerTake
    \/ WorkerStart
    \/ WorkerEnd
    \/ BackfillCollect
    \/ BackfillWriteDay
    \/ BackfillDone

SpecBackfill == InitBackfill /\ [][NextBackfill]_vars

----------------------------------------------------------------------------
(* The backfill: properties *)

\* The events of the backfill before position i.
EventsBefore(i) == SubSeq(backfill.events, 1, i - 1)

FetchEnded(e, date, d) ==
    e.ev \in {"fetch_ok", "fetch_failed"} /\ e.date = date /\ e.device = d

\* C26: the write of day d comes after the fetch of every device for day d
\* has ended, well or not; no fetch for day d + 1 starts before the write of
\* day d; and the write of day d carries the records of exactly the devices
\* whose fetch for day d succeeded.
C26_DayBarrier ==
    \A i \in 1..Len(backfill.events) :
        LET e == backfill.events[i] IN
        /\ e.ev = "write"
              => /\ \A d \in StreamKeys :
                       \E x \in Range(EventsBefore(i)) : FetchEnded(x, e.date, d)
                 /\ e.devices
                       = {d \in StreamKeys :
                             \E x \in Range(EventsBefore(i)) :
                                 /\ x.ev = "fetch_ok"
                                 /\ x.date = e.date /\ x.device = d}
        /\ (e.ev = "fetch_start" /\ e.date > D0)
              => \E x \in Range(EventsBefore(i)) :
                     x.ev = "write" /\ x.date = e.date - 1

\* With two workers, the thread that took the call of s2 ran it to its end
\* before the thread that took the call of s1 started; the day was written
\* with both devices and 2024-01-02 began.
C26_Witness ==
    /\ backfill.max_workers = 2
    /\ Len(backfill.events) >= 6
    /\ backfill.events[1] = BackfillEvent("fetch_start", D0, "s2", {})
    /\ backfill.events[2] = BackfillEvent("fetch_ok", D0, "s2", {})
    /\ backfill.events[3] = BackfillEvent("fetch_start", D0, "s1", {})
    /\ backfill.events[4] = BackfillEvent("fetch_ok", D0, "s1", {})
    /\ backfill.events[5] = BackfillEvent("write", D0, "none", {"s1", "s2"})
    /\ backfill.events[6].ev = "fetch_start" /\ backfill.events[6].date = D1

\* The number of times the fetch of a device and day was started.
FetchStarts(date, d) ==
    Len(SelectSeq(backfill.events,
                  LAMBDA x : x.ev = "fetch_start" /\ x.date = date /\ x.device = d))

\* C27: in the pool the fetch of a device and day is attempted once, failed
\* or not; a failed fetch gives no records to the day's write and leaves no
\* artifact for that device and day, while the devices that succeeded are
\* written; and the day after a failed fetch is started all the same.
C27_FailedFetchExcluded ==
    /\ \A date \in Dates, d \in StreamKeys : FetchStarts(date, d) <= 1
    /\ \A i \in 1..Len(backfill.events) :
          LET e == backfill.events[i] IN
          e.ev = "write"
             => \A d \in StreamKeys :
                   /\ FetchStarts(e.date, d) = 1
                   /\ (\E x \in Range(EventsBefore(i)) :
                          x = BackfillEvent("fetch_failed", e.date, d, {}))
                         => /\ d \notin e.devices
                            /\ artifacts[<<"heating", d, e.date>>] = <<>>
                   /\ (~backfill.dry_run
                       /\ \E x \in Range(EventsBefore(i)) :
                             x = BackfillEvent("fetch_ok", e.date, d, {}))
                         => /\ d \in e.devices
                            /\ artifacts[<<"heating", d, e.date>>] # <<>>
    /\ (backfill.pc = "submit" /\ backfill.current_date > D0)
          => backfill.events[Len(backfill.events)]
                .ev = "write"

\* The fetch of s2 for 2024-01-01 started before that of s1, which failed
\* while that of s2 succeeded: the day was written with the records of s2
\* only, and the backfill went on to fetch 2024-01-02.
C27_Witness ==
    /\ ~backfill.dry_run
    /\ \E i \in 1..Len(backfill.events) :
          /\ backfill.events[i] = BackfillEvent("write", D0, "none", {"s2"})
          /\ BackfillEvent("fetch_failed", D0, "s1", {}) \in Range(EventsBefore(i))
    /\ artifacts[<<"heating", "s1", D0>>] = <<>>
    /\ artifacts[<<"heating", "s2", D0>>] # <<>>
    /\ FetchStarts(D0, "s1") = 1
    /\ FetchStarts(D1, "s1") = 1
    /\ backfill.events[1] = BackfillEvent("fetch_start", D0, "s2", {})
    /\ backfill.events[2] = BackfillEvent("fetch_start", D0, "s1", {})

----------------------------------------------------------------------------
(* octopusclient/enrich.py: vectorized_rate_join, detect_missing_intervals *)

\* 2024-01-01T00:00:00Z, the first interval_start of the examples.
EnrichT0 == D0 * Day

\* A consumption record: its interval and its consumption (in Wh).
EnrichRec(t, wh) ==
    [interval_start |-> VendorTs(t, 0), interval_end |-> VendorTs(t + HalfHour, 0),
     consumption |-> wh]

\* A unit rate: valid_from, valid_to (has_to = FALSE: null, open-ended) and
\* value_inc_vat (in hundredths of a penny).
Rate(from, has_to, to, value) ==
    [valid_from |-> VendorTs(from, 0), has_to |-> has_to,
     valid_to |-> VendorTs(to, 0), value_inc_vat |-> value]

\* The consumption lists of the model: the intervals starting at 00:00 and
\* 00:30, in any order.
EnrichRecs == {EnrichRec(EnrichT0, 500), EnrichRec(EnrichT0 + HalfHour, 700)}

\* The rates of the model: [23:30, 00:30), [00:30, null), [23:30, null),
\* [00:00, 00:30) and [23:30, 00:15).
RatePool ==
    {Rate(EnrichT0 - HalfHour, TRUE, EnrichT0 + HalfHour, 3000),
     Rate(EnrichT0 + HalfHour, FALSE, 0, 2800),
     Rate(EnrichT0 - HalfHour, FALSE, 0, 3100),
     Rate(EnrichT0, TRUE, EnrichT0 + HalfHour, 2900),
     Rate(EnrichT0 - HalfHour, TRUE, EnrichT0 + 15 * 60, 3200)}

\* The lists without repetition of at most n elements of a set.
RECURSIVE ListsOf(_, _)
ListsOf(S, n) ==
    IF n = 0 THEN {<<>>}
    ELSE ListsOf(S, n - 1)
         \cup {Append(q, x) : q \in {r \in ListsOf(S, n - 1) : Len(r) = n - 1},
                              x \in S}

Distinct(q) == \A i, j \in 1..Len(q) : i # j => q[i] # q[j]

MaxRates == 2
MaxGapRecords == 3

\* interval_end values of the gap detection inputs: 00:30, 01:00, 01:30, 02:00.
GapEnds == {EnrichT0 + k * HalfHour : k \in 1..4}

\* Lines 13-19: interval_start of a record, parsed, or derived from
\* interval_end when the list has no interval_start column.
IntervalStart(rec, with_column) ==
    IF with_column THEN ParseTs(rec.interval_start)
    ELSE ParseTs(rec.interval_end) - 30 * 60

\* Line 31: df_r.sort_values('valid_from'); the order of rates with equal
\* valid_from is whatever the sort of the build leaves.
SortedRates(rates) ==
    {q \in ListsOf(Range(rates), Len(rates)) :
        /\ Len(q) = Len(rates)
        /\ Distinct(q)
        /\ \A i \in 1..(Len(q) - 1) :
              ParseTs(q[i].valid_from) <= ParseTs(q[i + 1].valid_from)}

\* Line 35: np.searchsorted(starts, interval_start, side='right') - 1, the
\* position of the last rate whose valid_from is not after interval_start
\* (0: none; positions count from 1 here).
RateIndex(sorted, t) ==
    Cardinality({i \in 1..Len(sorted) : ParseTs(sorted[i].valid_from) <= t})

\* Lines 38-48: the row of the output for a record whose rate is r.
CostedRow(rec, t, r) ==
    [interval_start |-> t, consumption |-> rec.consumption, costed |-> TRUE,
     unit_rate |-> r.value_inc_vat, cost |-> rec.consumption * r.value_inc_vat]

\* Lines 20-24: the row of a record returned without rate columns.
PlainRow(rec, t) ==
    [interval_start |-> t, consumption |-> rec.consumption, costed |-> FALSE,
     unit_rate |-> 0, cost |-> 0]

\* Line 43: the valid_to condition on the rate looked up.
InValidTo(r, t) == ~r.has_to \/ t < ParseTs(r.valid_to)

\* vectorized_rate_join(consumption, rates) for one order of the sort: the
\* rows of the DataFrame returned.
rate_join_rows(consumption, with_column, rates, sorted) ==
    IF consumption = <<>> THEN <<>>
    ELSE IF rates = <<>>
    THEN [i \in 1..Len(consumption) |->
             PlainRow(consumption[i], IntervalStart(consumption[i], with_column))]
    ELSE LET kept == SelectSeq(consumption,
                        LAMBDA rec :
                           LET t == IntervalStart(rec, with_column)
                               idx == RateIndex(sorted, t)
                           IN  idx >= 1 /\ InValidTo(sorted[idx], t))
         IN  [i \in 1..Len(kept) |->
                 LET t == IntervalStart(kept[i], with_column)
                 IN  CostedRow(kept[i], t, sorted[RateIndex(sorted, t)])]

vectorized_rate_join(consumption, with_column, rates) ==
    {rate_join_rows(consumption, with_column, rates, sorted) :
        sorted \in SortedRates(rates)}

\* detect_missing_intervals(consumption), lines 51-68: (expected, actual,
\* missing).  with_column: the records have an interval_end.
detect_missing_intervals(consumption, with_column) ==
    IF Len(consumption) < 2 \/ ~with_column
    THEN <<Len(consumption), Len(consumption), 0>>
    ELSE LET ends == {ParseTs(consumption[i].interval_end) :
                         i \in 1..Len(consumption)}
             first == CHOOSE t \in ends : \A u \in ends : t <= u
             last == CHOOSE t \in ends : \A u \in ends : u <= t
             start == first - 30 * 60
             span_minutes == (last - start) \div 60
             expected == span_minutes \div 30
             actual == Len(consumption)
         IN  <<expected, actual, Max(0, expected - actual)>>

\* Sequences over a set of at most n elements, repetitions allowed.
RECURSIVE SeqsUpTo(_, _)
SeqsUpTo(S, n) ==
    IF n = 0 THEN {<<>>}
    ELSE SeqsUpTo(S, n - 1)
         \cup {Append(q, x) : q \in {r \in SeqsUpTo(S, n - 1) : Len(r) = n - 1},
                              x \in S}

\* The arguments of the calls: a consumption list and a rate list for the
\* join, a list of records for the gap detection.  with_column = FALSE: the
\* dicts of the list have no interval_start key (join) or no interval_end key
\* (gap detection), and that field of the model's records is not read.
EnrichArgs ==
    {[NoEnrich EXCEPT !.arg = "join", !.consumption = c, !.with_column = w,
                      !.rates = r] :
        c \in {q \in ListsOf(EnrichRecs, 2) : Distinct(q)}, w \in BOOLEAN,
        r \in {q \in ListsOf(RatePool, MaxRates) : Distinct(q)}}
    \cup
    {[NoEnrich EXCEPT !.arg = "gap", !.with_column = w,
                      !.consumption = [i \in 1..Len(q) |->
                                          EnrichRec(q[i] - HalfHour, 500)]] :
        q \in SeqsUpTo(GapEnds, MaxGapRecords), w \in BOOLEAN}

InitEnrich ==
    /\ state_blob = [c \in Containers |-> MissingBlob]
    /\ cl = [c \in Clients |-> IdleCall]
    /\ ver = 0
    /\ ops = 0
    /\ last_get = NoGet
    /\ done_set = [c \in Clients |-> NoSet]
    /\ cfg = [skip_octopus |-> TRUE, skip_tado |-> TRUE, meters |-> <<>>,
              trvs |-> <<>>]
    /\ SchedIdle
    /\ last_write = NoWrite
    /\ report = NoReport
    /\ http = NoHttp
    /\ tado_http = NoTadoHttp
    /\ backfill = NoBackfill
    /\ token = NoToken
    /\ enrich \in EnrichArgs

\* vectorized_rate_join(consumption, rates) is called and returns.
RateJoinCall ==
    /\ enrich.fn = "none" /\ enrich.arg = "join"
    /\ \E rows \in vectorized_rate_join(enrich.consumption, enrich.with_column,
                                        enrich.rates) :
          enrich' = [enrich EXCEPT !.fn = "vectorized_rate_join", !.rows = rows]
    /\ UNCHANGED <<state_blob, storeVars, schedVars, writerVars>>
    /\ UNCHANGED <<report, http, tado_http, backfill, token>>

\* detect_missing_intervals(consumption) is called and returns.
DetectMissingCall ==
    /\ enrich.fn = "none" /\ enrich.arg = "gap"
    /\ enrich' = [enrich EXCEPT
                     !.fn = "detect_missing_intervals",
                     !.counts = detect_missing_intervals(enrich.consumption,
                                                         enrich.with_column)]
    /\ UNCHANGED <<state_blob, storeVars, schedVars, writerVars>>
    /\ UNCHANGED <<report, http, tado_http, backfill, token>>

NextEnrich == RateJoinCall \/ DetectMissingCall

SpecEnrich == InitEnrich /\ [][NextEnrich]_vars

----------------------------------------------------------------------------
(* enrich: properties *)

\* The reference join: rate r covers the interval starting at t.
Covers(r, t) == ParseTs(r.valid_from) <= t /\ (~r.has_to \/ t < ParseTs(r.valid_to))

\* C29: the output of vectorized_rate_join is that of the nested-loop join:
\* an interval is in the output with the value of rate r and cost =
\* consumption x that value if and only if r.valid_from <= interval_start <
\* r.valid_to (null valid_to: open-ended), and an interval covered by no rate
\* is not in the output.
C29_RateJoin ==
    enrich.fn = "vectorized_rate_join"
       => \A rec \in Range(enrich.consumption) :
             LET t == IntervalStart(rec, enrich.with_column) IN
             /\ \A r \in Range(enrich.rates) :
                   Covers(r, t)
                      <=> \E row \in Range(enrich.rows) :
                             /\ row.interval_start = t
                             /\ row.costed
                             /\ row.unit_rate = r.value_inc_vat
                             /\ row.cost = rec.consumption * r.value_inc_vat
             /\ (\A r \in Range(enrich.rates) : ~Covers(r, t))
                   => \A row \in Range(enrich.rows) : row.interval_start # t

\* No instant is covered by two rates of the list, and the list is not empty.
RatesPartition(rates) ==
    /\ rates # <<>>
    /\ \A i, j \in 1..Len(rates) :
          i # j => \A t \in {EnrichT0 + k * 15 * 60 : k \in -2..4} :
                      ~(Covers(rates[i], t) /\ Covers(rates[j], t))

\* What does hold: the same for a non-empty list of rates no two of which
\* are valid at the same instant.
RateJoinOnPartition ==
    (enrich.fn = "vectorized_rate_join" /\ RatesPartition(enrich.rates))
       => \A rec \in Range(enrich.consumption) :
             LET t == IntervalStart(rec, enrich.with_column) IN
             /\ \A r \in Range(enrich.rates) :
                   Covers(r, t)
                      <=> \E row \in Range(enrich.rows) :
                             /\ row.interval_start = t
                             /\ row.costed
                             /\ row.unit_rate = r.value_inc_vat
                             /\ row.cost = rec.consumption * r.value_inc_vat
             /\ (\A r \in Range(enrich.rates) : ~Covers(r, t))
                   => \A row \in Range(enrich.rows) : row.interval_start # t

\* The 30-minute slots from the earliest to the latest interval_end of a
\* list, by their interval_end, and those among them without a record.
EndsOf(consumption) ==
    {ParseTs(consumption[i].interval_end) : i \in 1..Len(consumption)}

SlotsWithoutRecord(consumption) ==
    {t \in GapEnds :
        /\ \E a \in EndsOf(consumption) : a <= t
        /\ \E b \in EndsOf(consumption) : t <= b
        /\ t \notin EndsOf(consumption)}

\* C30: for records in any order on the 30-minute grid, missing is the
\* number of slots between the earliest and the latest interval_end that
\* have no record, and 0 when fewer than 2 records are given.
C30_GapDetection ==
    (enrich.fn = "detect_missing_intervals" /\ enrich.with_column)
       => enrich.counts[3]
             = IF Len(enrich.consumption) < 2 THEN 0
               ELSE Cardinality(SlotsWithoutRecord(enrich.consumption))

\* What does hold: the same when no two records have the same interval_end.
GapDetectionDistinct ==
    (enrich.fn = "detect_missing_intervals" /\ enrich.with_column
     /\ Cardinality(EndsOf(enrich.consumption)) = Len(enrich.consumption))
       => enrich.counts[3]
             = IF Len(enrich.consumption) < 2 THEN 0
               ELSE Cardinality(SlotsWithoutRecord(enrich.consumption))

----------------------------------------------------------------------------
(* ingest_meter_consumption called for meter s1 alone, over any stored     *)
(* watermark (one later than the run included) and vendor records in any   *)
(* offset notation: "...Z" and "...+01:00" in the same batch, as the       *)
(* vendor sends around a clock change.                                     *)

\* The notations of a vendor timestamp: Z and +01:00.
Offsets == {0, Hour}

\* A consumption record whose two timestamps carry the offset off.
OffsetRec(t, off) ==
    [interval_start |-> VendorTs(t, off),
     interval_end |-> VendorTs(t + HalfHour, off)]

\* The records the vendor returns for a window [start, t_now): those of any
\* set of its intervals inside the window, in ascending order of instant,
\* each in either notation.
OffsetResponses(start, t_now) ==
    UNION {LET q == SortedSeq(S)
           IN  {[i \in 1..Len(q) |-> OffsetRec(q[i], f[q[i]])] :
                   f \in [S -> Offsets]} :
        S \in SUBSET {t \in Slots : start <= t /\ t < t_now}}

\* Stored watermarks of s1: none, 2024-01-01T22:00Z, and 2024-01-02T03:00Z,
\* which is later than both runs.
IngestStored == {Absent, StrZ(D0 * Day + 22 * Hour), StrZ(D1 * Day + 3 * Hour)}

InitIngest ==
    /\ \E a \in IngestStored :
          state_blob = [c \in Containers |->
                           IF c = "consumption"
                           THEN DocBlob([k \in StreamKeys |->
                                            IF k = "s1" THEN a ELSE Absent])
                           ELSE MissingBlob]
    /\ cl = [c \in Clients |-> IdleCall]
    /\ ver = 0
    /\ ops = 0
    /\ last_get = NoGet
    /\ done_set = [c \in Clients |-> NoSet]
    /\ cfg = [skip_octopus |-> FALSE, skip_tado |-> TRUE, meters |-> <<"s1">>,
              trvs |-> <<>>]
    /\ SchedIdle
    /\ last_write = NoWrite
    /\ ToolsIdle

\* ingest_meter_consumption(client, writer, s1, settings), lines 107-169,
\* called at an instant later than the call before; the cursor read and the
\* vendor call can fail.
IngestCall ==
    /\ \E t \in NowChoices, getOk \in BOOLEAN, fetchOk \in BOOLEAN :
          /\ t > now
          /\ now' = t
          /\ LET st == StartTime(get_last_interval(state_blob["consumption"],
                                                   "s1", getOk).value, t)
             IN  \E records \in OffsetResponses(st.start, t) :
                    LET in == [getOk |-> getOk, fetchOk |-> fetchOk,
                               records |-> records, failAt |-> 0,
                               setDlOk |-> TRUE, setUpOk |-> TRUE]
                        r == ingest_meter_consumption(state_blob["consumption"],
                                                      artifacts, "s1", t, in)
                    IN  /\ state_blob' = [state_blob EXCEPT
                                             !["consumption"] = r.blob]
                        /\ artifacts' = r.arts
                        /\ pass' = [source |-> "octopus", key |-> "s1",
                                    date |-> 0, raised |-> r.raised,
                                    stage |-> r.stage, start |-> r.start,
                                    read_failed |-> ~getOk,
                                    set_called |-> r.set_called,
                                    fetched |-> IF r.stage = "done"
                                                THEN Len(records) ELSE 0,
                                    records |-> IF r.stage = "done"
                                                THEN records ELSE <<>>,
                                    returned |-> Returned(fetchOk /\ ~st.raised,
                                                          Len(records))]
                        /\ log' = Append(log, [source |-> "octopus",
                                               key |-> "s1", date |-> 0,
                                               result |-> PassResult(r.stage)])
    /\ UNCHANGED <<cfg, pc, meter_idx, success_count, error_count, devices,
                   per_device_start, day_cursor, dev_idx, success, errors,
                   total_success, total_errors, outcome, fatal,
                   plan_read_failed, gaps>>
    /\ UNCHANGED storeVars
    /\ UNCHANGED writerVars
    /\ UNCHANGED toolVars

NextIngest == IngestCall

SpecIngest == InitIngest /\ [][NextIngest]_vars

----------------------------------------------------------------------------
(* Direct ingestion: properties *)

\* The interval_start instants of a batch of vendor records.
StartsOf(records) ==
    {ParseTs(records[i].interval_start) : i \in 1..Len(records)}

\* The consumption pass of the step advanced the cursor of its meter.
CursorAdvanced ==
    PassStep /\ pass'.source = "octopus" /\ pass'.stage = "done"

\* C31: when a stream's cursor is advanced, the value stored is the greatest
\* interval_start instant among the records fetched and written in that
\* pass, for any mix of offset notations in the vendor timestamps.
C31_CursorIsGreatestStart ==
    [][CursorAdvanced
       => /\ Watermark(state_blob'["consumption"], pass'.key).kind = "aware"
          /\ \A t \in StartsOf(pass'.records) :
                t <= Watermark(state_blob'["consumption"], pass'.key).t
          /\ Watermark(state_blob'["consumption"], pass'.key).t
                \in StartsOf(pass'.records)]_vars

\* What holds: for a batch in one notation the value stored is the greatest
\* interval_start instant of the batch.
OneNotation(records) ==
    \A i, j \in 1..Len(records) :
       records[i].interval_start.off = records[j].interval_start.off

CursorIsGreatestStartOneNotation ==
    [][CursorAdvanced /\ OneNotation(pass'.records)
       => /\ Watermark(state_blob'["consumption"], pass'.key).kind = "aware"
          /\ \A t \in StartsOf(pass'.records) :
                t <= Watermark(state_blob'["consumption"], pass'.key).t
          /\ Watermark(state_blob'["consumption"], pass'.key).t
                \in StartsOf(pass'.records)]_vars

----------------------------------------------------------------------------
(* Consumption partitions: properties *)

\* C32: each consumption record is stored in the partition whose date is the
\* UTC date of its interval_start, the field that is its ordering key and
\* the input of the watermark; it is never partitioned by a different field.
C32_PartitionByStart ==
    \A k \in StreamKeys, d \in Dates :
       \A i \in 1..Len(artifacts[<<"consumption", k, d>>]) :
          DateOf(artifacts[<<"consumption", k, d>>][i].interval_start) = d

\* What holds: the partition of a consumption record is the UTC date of its
\* interval_end.
ConsumptionPartitionByEnd ==
    \A k \in StreamKeys, d \in Dates :
       \A i \in 1..Len(artifacts[<<"consumption", k, d>>]) :
          DateOf(artifacts[<<"consumption", k, d>>][i].interval_end) = d

----------------------------------------------------------------------------
(* Empty fetch: properties *)

\* The step is a stream pass whose vendor call returned zero records.
ZeroFetchStep == PassStep /\ pass'.returned = "zero"

\* C33: when a stream's fetch returns zero records, the pass uploads no
\* partition and no cursor (the artifacts and the cursor documents are
\* unchanged) and the stream is counted as a success, not as an error.
C33_EmptyFetchNoOp ==
    [][ZeroFetchStep
       => /\ state_blob' = state_blob
          /\ artifacts' = artifacts
          /\ ~pass'.raised
          /\ ~pass'.set_called
          /\ IF pass'.source = "octopus"
             THEN /\ success_count' = success_count + 1
                  /\ error_count' = error_count
             ELSE /\ success' = success + 1
                  /\ errors' = errors]_vars

\* A heating pass got zero records for a device that has a stored watermark
\* and stored artifacts.
C33_Witness ==
    /\ pass.returned = "zero"
    /\ pass.source = "tado"
    /\ Watermark(state_blob["heating"], pass.key).kind = "aware"
    /\ \E d \in Dates : artifacts[<<"heating", pass.key, d>>] # <<>>
    /\ success > 0

----------------------------------------------------------------------------
(* Cursor lifecycle: properties *)

\* The passes of the current run made for a stream.
PassesOf(source, key) ==
    {i \in 1..Len(log) : log[i].source = source /\ log[i].key = key}

\* Calls of get_last_interval for a meter in the current run: one in each
\* pass of the meter (line 112).
ConsumptionReads(key) == Cardinality(PassesOf("octopus", key))

\* Calls of get_last_interval for a device in the current run, once the
\* device has had a pass: one in the planning loop (line 206) and one in
\* each pass whose get_day_report returned (line 231).
HeatingReads(key) ==
    IF PassesOf("tado", key) = {} THEN 0
    ELSE 1 + Cardinality({i \in PassesOf("tado", key) :
                              log[i].result # "fetch_raised"})

\* The step is a pass of the stream of the pass before it in the same run.
SameStreamAgain ==
    /\ PassStep
    /\ Len(log) > 0
    /\ pass'.source = pass.source
    /\ pass'.key = pass.key

\* C34: within one run each stream's cursor is read exactly once, before the
\* stream's first fetch, and written at most once, after the stream's last
\* partition write, for consumption streams and for heating streams whose
\* window spans several days.  Checked as: no stream has more than one
\* cursor read in a run, and a pass that wrote the cursor is not followed in
\* the run by a pass of the same stream that writes a partition or the
\* cursor.
C34_CursorLifecycle ==
    [][/\ \A k \in StreamKeys :
             /\ ConsumptionReads(k)' <= 1
             /\ HeatingReads(k)' <= 1
       /\ SameStreamAgain /\ pass.set_called
          => /\ ~pass'.set_called
             /\ artifacts' = artifacts]_vars

\* What holds: a meter has one pass in a run, with one cursor read, and in
\* any pass the cursor is written only after the partition writes.
ConsumptionCursorLifecycle ==
    [][/\ \A k \in StreamKeys : ConsumptionReads(k)' <= 1
       /\ PassStep /\ pass'.set_called => pass'.stage \in {"set", "done"}]_vars

----------------------------------------------------------------------------
(* Bounded retry: properties *)

\* The requests of the _get call that the last request belongs to are those
\* for its page; a further attempt is a request for the same page.
FurtherAttempt ==
    /\ http'.pc = "get"
    /\ http'.page = LastRequest.page
    /\ http'.attempt = LastRequest.attempt

\* C35: one _get call makes at most 5 request attempts; a transport error on
\* an attempt leads to another attempt until one attempt succeeds or 5 have
\* failed, after which the error is re-raised and the meter is counted as
\* one error; no other error kind triggers a further attempt.
C35_BoundedRetry ==
    [][/\ RequestStep
          => /\ LastRequest.attempt <= MaxAttempts
             /\ (LastRequest.outcome = "neterr" /\ LastRequest.attempt < MaxAttempts
                    => FurtherAttempt)
             /\ (LastRequest.outcome = "neterr" /\ LastRequest.attempt = MaxAttempts
                    => http'.pc = "raised")
             /\ (LastRequest.outcome \notin {"ok", "neterr"}
                    => http'.pc = "raised")
             /\ (LastRequest.attempt > 1
                    => /\ http.requests[Len(http.requests)].page = LastRequest.page
                       /\ http.requests[Len(http.requests)].outcome = "neterr")
       /\ CountStep /\ http.pc = "raised"
          => /\ error_count' = error_count + 1
             /\ success_count' = success_count]_vars

\* Five attempts of one _get call failed with a transport error and the
\* meter was counted as one error.
C35_Witness ==
    /\ http.pc = "done_raised"
    /\ error_count = 1
    /\ Len(http.requests) >= MaxAttempts
    /\ \A i \in 1..MaxAttempts :
          /\ http.requests[Len(http.requests) - MaxAttempts + i].attempt = i
          /\ http.requests[Len(http.requests) - MaxAttempts + i].outcome = "neterr"

----------------------------------------------------------------------------
(* Whole runs of main with the consumption fetch made page by page:        *)
(* _paginate asks for page 1, 2, ... until a page has no "next"; how many  *)
(* pages have one is the vendor's choice.                                  *)

\* The page counter is kept up to MaxPages + 1; the pages after MaxPages
\* carry no record.
PageAfter(p) == IF p <= MaxPages THEN p + 1 ELSE p

\* interval_start of the record of page p.
PageRecStart(p) == ParseTs(PageRec(p).interval_start)

\* The JSON objects the vendor can answer page p of a window with.
PagedBodies(p, start, t_now) ==
    {b \in [has_results : BOOLEAN, results : {<<>>, <<PageRec(1)>>,
                                              <<PageRec(2)>>, <<PageRec(3)>>},
            next : BOOLEAN] :
        /\ ~b.has_results => b.results = <<>>
        /\ b.results # <<>>
           => /\ p <= MaxPages
              /\ b.results = <<PageRec(p)>>
              /\ start <= PageRecStart(p)
              /\ PageRecStart(p) < t_now}

\* The window of the consumption pass in progress (lines 112-136), its cursor
\* read having succeeded.
PagedStart ==
    StartTime(get_last_interval(state_blob["consumption"],
                                cfg.meters[meter_idx], TRUE).value, now)

\* The state a run at 2024-01-01T23:40Z left: it stored the interval of
\* meter s1 that starts at 23:30Z and the demand event of 22:00Z of heating
\* device s1, and advanced the two watermarks to them, so that the next
\* run's day loop has two days.  The environment has one meter and one
\* device.
InitPaged ==
    /\ cfg = [skip_octopus |-> FALSE, skip_tado |-> FALSE, meters |-> <<"s1">>,
              trvs |-> <<"s1">>]
    /\ state_blob =
          [c \in Containers |->
              IF c = "heating"
              THEN DocBlob([EmptyMap EXCEPT !["s1"] = StrZ(D0 * Day + 22 * Hour)])
              ELSE DocBlob([EmptyMap EXCEPT !["s1"] = StrZ(PageRecStart(3))])]
    /\ artifacts =
          [p \in Paths |->
              IF p = <<"heating", "s1", D0>>
              THEN <<HeatRow(HeatRec("demand", D0 * Day + 22 * Hour))>>
              ELSE IF p = <<"consumption", "s1", D1>>
              THEN <<ConsumptionRow(PageRec(3))>>
              ELSE <<>>]
    /\ cl = [c \in Clients |-> IdleCall]
    /\ ver = 0
    /\ ops = 0
    /\ last_get = NoGet
    /\ done_set = [c \in Clients |-> NoSet]
    /\ pc = "idle"
    /\ now = D0 * Day + 23 * Hour + 40 * 60
    /\ meter_idx = 1
    /\ success_count = 0
    /\ error_count = 0
    /\ devices = <<>>
    /\ per_device_start = [k \in StreamKeys |-> 0]
    /\ day_cursor = 0
    /\ dev_idx = 1
    /\ success = 0
    /\ errors = 0
    /\ total_success = 0
    /\ total_errors = 0
    /\ outcome = "none"
    /\ pass = NoPass
    /\ log = <<>>
    /\ fatal = {}
    /\ plan_read_failed = [k \in StreamKeys |-> FALSE]
    /\ gaps = [p \in Containers \X StreamKeys |-> {}]
    /\ last_write = NoWrite
    /\ ToolsIdle

\* run_octopus_ingestion, line 83, and ingest_meter_consumption up to line
\* 139: the next meter's pass starts, reads the clock (line 118) and plans
\* its window, and _paginate starts.
PagedBegin ==
    /\ pc = "octopus"
    /\ meter_idx <= Len(cfg.meters)
    /\ http.pc = "idle"
    /\ now' \in ClockReads(now)
    /\ http' = [pc |-> IF PagedStart.raised THEN "raised" ELSE "get",
                page |-> 1, attempt |-> 0, results |-> <<>>, requests |-> <<>>]
    /\ UNCHANGED <<state_blob, artifacts, cfg, pc, meter_idx, success_count,
                   error_count, devices, per_device_start, day_cursor, dev_idx,
                   success, errors, total_success, total_errors, outcome, pass,
                   log, fatal, plan_read_failed, gaps>>
    /\ UNCHANGED storeVars
    /\ UNCHANGED writerVars
    /\ UNCHANGED <<report, tado_http, backfill, enrich, token>>

\* One attempt of _get for the current page (lines 33-51) and what _paginate
\* does with its result (lines 59-67): the loop ends only on a page without
\* "next" or on an exception.
PagedRequest ==
    /\ pc = "octopus"
    /\ http.pc = "get"
    /\ \E out \in Outcomes,
          body \in PagedBodies(http.page, PagedStart.start, now) :
          http' =
             IF out = "ok"
             THEN IF body.next
                  THEN [http EXCEPT !.page = PageAfter(http.page),
                                    !.attempt = 0,
                                    !.results = Extend(http.results,
                                                       ResultsOf(body))]
                  ELSE [http EXCEPT !.pc = "returned",
                                    !.results = Extend(http.results,
                                                       ResultsOf(body))]
             ELSE IF ShouldRetry(out, http.attempt + 1)
             THEN [http EXCEPT !.attempt = http.attempt + 1]
             ELSE [http EXCEPT !.pc = "raised"]
    /\ UNCHANGED <<state_blob, artifacts, cfg, pc, now, meter_idx, success_count,
                   error_count, devices, per_device_start, day_cursor, dev_idx,
                   success, errors, total_success, total_errors, outcome, pass,
                   log, fatal, plan_read_failed, gaps>>
    /\ UNCHANGED storeVars
    /\ UNCHANGED writerVars
    /\ UNCHANGED <<report, tado_http, backfill, enrich, token>>

\* get_consumption returned or raised: the rest of ingest_meter_consumption
\* (lines 140-169) and the try/except of run_octopus_ingestion (lines 84-98),
\* with no storage call failing.
PagedFinish ==
    /\ pc = "octopus"
    /\ http.pc \in {"returned", "raised"}
    /\ LET meter == cfg.meters[meter_idx]
           in == [getOk |-> TRUE, fetchOk |-> http.pc = "returned",
                  records |-> http.results, failAt |-> 0,
                  setDlOk |-> TRUE, setUpOk |-> TRUE]
           r == ingest_meter_consumption(state_blob["consumption"], artifacts,
                                         meter, now, in)
           counts == CountPass(success_count, error_count, r.raised)
       IN  /\ state_blob' = [state_blob EXCEPT !["consumption"] = r.blob]
           /\ artifacts' = r.arts
           /\ success_count' = counts[1]
           /\ error_count' = counts[2]
           /\ pass' = [source |-> "octopus", key |-> meter, date |-> 0,
                       raised |-> r.raised, stage |-> r.stage, start |-> r.start,
                       read_failed |-> FALSE, set_called |-> r.set_called,
                       fetched |-> Len(http.results), records |-> <<>>,
                       returned |-> Returned(in.fetchOk, Len(http.results))]
           /\ log' = Append(log, [source |-> "octopus", key |-> meter,
                                  date |-> 0, result |-> PassResult(r.stage)])
    /\ meter_idx' = meter_idx + 1
    /\ http' = NoHttp
    /\ UNCHANGED <<cfg, pc, now, devices, per_device_start, day_cursor, dev_idx,
                   success, errors, total_success, total_errors, outcome,
                   fatal, plan_read_failed, gaps>>
    /\ UNCHANGED storeVars
    /\ UNCHANGED writerVars
    /\ UNCHANGED <<report, tado_http, backfill, enrich, token>>

\* The steps of a run in progress: each is taken once the external calls it
\* makes have returned or raised.  With one device no day of the loop is
\* before the device's window (lines 224-225 never continue).
RunStep ==
    \/ OctopusBegin
    \/ PagedBegin
    \/ PagedRequest
    \/ PagedFinish
    \/ OctopusReturn
    \/ TadoBegin
    \/ TadoDeviceDay
    \/ TadoReturn
    \/ Finish

NextPaged == StartRun \/ RunStep

\* Every external call returns or raises, so a run in progress takes its
\* next step.
SpecPaged == InitPaged /\ [][NextPaged]_vars /\ WF_vars(RunStep)

----------------------------------------------------------------------------
(* Termination: properties *)

\* The terminal states of a run.
Success == outcome = "returned" /\ total_errors = 0
PartialFailure ==
    outcome = "returned" /\ total_errors > 0 /\ total_success > 0
TotalFailure == outcome = "raised"

Terminated ==
    /\ pc = "idle"
    /\ \/ Success /\ ~PartialFailure /\ ~TotalFailure
       \/ PartialFailure /\ ~Success /\ ~TotalFailure
       \/ TotalFailure /\ ~Success /\ ~PartialFailure

\* C36: every scheduler run terminates in exactly one of the terminal states
\* Success, PartialFailure and TotalFailure, provided each external call
\* returns or raises; the pagination loop and the heating day loop finish.
C36_RunTerminates == (pc # "idle") ~> Terminated

\* What holds: a run terminates in exactly one of the terminal states when
\* its pagination loops are not answered with a "next" forever, and a run
\* that has left the meter loop always terminates.
VendorPagesEnd == []<>(http.pc # "get")

RunTerminatesIfPagesEnd == VendorPagesEnd => C36_RunTerminates

AfterMetersTerminates == (pc \in {"tado_begin", "tado", "finish"}) ~> Terminated

\* A run that has ended is in exactly one terminal state.
EndedInTerminalState == (pc = "idle" /\ outcome # "none") => Terminated

----------------------------------------------------------------------------
(* Heating device-days that failed: properties *)

\* The calendar days of the current run on which the pass of a device
\* raised.
FailedDays(key) ==
    {log[i].date : i \in {j \in PassesOf("tado", key) : log[j].result # "ok"}}

\* C37: no heating device-day is permanently skipped: if the ingestion of
\* device d fails for calendar day D in some run, that run does not advance
\* d's watermark to an instant later than day D.
C37_NoDaySkipped ==
    [][(PassStep /\ pass'.source = "tado"
           /\ Watermark(state_blob'["heating"], pass'.key)
                 # Watermark(state_blob["heating"], pass'.key))
       => \A d \in FailedDays(pass'.key) :
             DateOf(Watermark(state_blob'["heating"], pass'.key).t) <= d]_vars

\* What holds: the pass that raised leaves the watermarks as they are.
FailedPassKeepsWatermark ==
    [][PassStep /\ pass'.raised
       => \A k \in StreamKeys :
             Watermark(state_blob'["heating"], k)
                = Watermark(state_blob["heating"], k)]_vars

----------------------------------------------------------------------------
(* Consumption window: well-formedness *)

\* The step is a consumption pass that handed a window to get_consumption.
ConsumptionFetchStep ==
    PassStep /\ pass'.source = "octopus" /\ pass'.stage # "plan"

\* C38: every window handed to the consumption fetcher is well formed,
\* start <= end, for any stored watermark, including a watermark later than
\* the instant at which the stream is processed.
C38_WindowWellFormed ==
    [][ConsumptionFetchStep => pass'.start <= now']_vars

\* What holds: the window is well formed when the watermark read is absent
\* or not later than the end of the window by more than the overlap.
WindowWellFormedUnlessFuture ==
    [][ConsumptionFetchStep
          /\ (Watermark(state_blob["consumption"], pass'.key).kind = "aware"
                 => Watermark(state_blob["consumption"], pass'.key).t
                       <= now' + overlap)
       => pass'.start <= now']_vars

----------------------------------------------------------------------------
(* scripts/backfill_tado_unified.py and tadoclient/client.py: the threads  *)
(* of the pool call get_day_report on one TadoClient.  The client holds   *)
(* _refresh_token and _token_acquired_at, the secret store holds           *)
(* "tado-refresh-token", and the vendor accepts only the refresh token it  *)
(* issued last (it rotates refresh tokens).  Refresh tokens are numbered   *)
(* in the order of issue.  No lock is taken anywhere, so the threads       *)
(* interleave statement by statement.                                      *)

\* get_day_report calls of one worker.
MaxTokenCalls == 1

InitRefresh ==
    /\ state_blob = [c \in Containers |-> MissingBlob]
    /\ cl = [c \in Clients |-> IdleCall]
    /\ ver = 0
    /\ ops = 0
    /\ last_get = NoGet
    /\ done_set = [c \in Clients |-> NoSet]
    /\ cfg = [skip_octopus |-> TRUE, skip_tado |-> FALSE, meters |-> <<>>,
              trvs |-> <<"s1", "s2">>]
    /\ SchedIdle
    /\ last_write = NoWrite
    /\ report = NoReport
    /\ http = NoHttp
    /\ tado_http = NoTadoHttp
    /\ backfill = NoBackfill
    /\ enrich = NoEnrich
    /\ \E stale \in BOOLEAN : token = [NoToken EXCEPT !.stale = stale]

\* The variables a step of the shared client leaves alone.
TokenFrame ==
    /\ UNCHANGED <<state_blob, artifacts, cfg, pc, now, meter_idx, success_count,
                   error_count, devices, per_device_start, day_cursor, dev_idx,
                   success, errors, total_success, total_errors, outcome, pass,
                   log, fatal, plan_read_failed, gaps>>
    /\ UNCHANGED storeVars
    /\ UNCHANGED writerVars
    /\ UNCHANGED <<report, http, tado_http, backfill, enrich>>

\* fetch_device_day_report (lines 69-76) calls get_day_report, which calls
\* _ensure_valid_token (line 681): lines 245-248 compare the age of the
\* access token with 80% of its lifetime; the token may have aged since the
\* last look.
TokenCheck(x) ==
    /\ token.w[x].pc \in {"idle", "done"}
    /\ token.w[x].calls < MaxTokenCalls
    /\ \E aged \in BOOLEAN :
          token' = [token EXCEPT
                       !.stale = @ \/ aged,
                       !.w[x].calls = @ + 1,
                       !.w[x].pc = IF token.stale \/ aged THEN "vault" ELSE "get"]
    /\ TokenFrame

\* Line 257: refresh_token_secret = get_secret("tado-refresh-token"), an
\* exchange with the secret store: the answer is the secret at the time the
\* store serves the request; a call that raises is logged (line 264) and the
\* request goes on.
TokenReadVault(x) ==
    /\ token.w[x].pc = "vault"
    /\ \E ok \in BOOLEAN :
          token' = IF ok
                   THEN [token EXCEPT !.w[x].secret = token.vault,
                                      !.w[x].pc = "assign"]
                   ELSE [token EXCEPT !.w[x].pc = "get"]
    /\ TokenFrame

\* Line 258: self._refresh_token = refresh_token_secret.value, once the
\* answer has arrived.
TokenAssign(x) ==
    /\ token.w[x].pc = "assign"
    /\ token' = [token EXCEPT !.refresh_token = token.w[x].secret,
                              !.w[x].pc = "params"]
    /\ TokenFrame

\* Lines 188-192: params are built from self._refresh_token.
TokenParams(x) ==
    /\ token.w[x].pc = "params"
    /\ token' = [token EXCEPT !.w[x].sent = token.refresh_token,
                              !.w[x].pc = "post"]
    /\ TokenFrame

\* Lines 194-197: httpx.post and raise_for_status.  The vendor answers 400
\* for a refresh token that is not the one it issued last, which raises out
\* of _refresh_access_token, as a transport error does, and is logged (line
\* 264).  For the one it issued last it answers with an access token, and
\* either rotates (the answer carries the new refresh token) or does not
\* (the answer carries none).
TokenPost(x) ==
    /\ token.w[x].pc = "post"
    /\ \E net \in BOOLEAN, rotates \in BOOLEAN :
          token' = IF ~net THEN [token EXCEPT !.w[x].pc = "get"]
                   ELSE IF token.w[x].sent # token.issued
                   THEN [token EXCEPT !.rejected = TRUE, !.w[x].pc = "get"]
                   ELSE IF rotates
                   THEN [token EXCEPT !.issued = @ + 1,
                                      !.w[x].has_token = TRUE,
                                      !.w[x].resp = token.issued + 1,
                                      !.w[x].pc = "store"]
                   ELSE [token EXCEPT !.w[x].has_token = FALSE,
                                      !.w[x].pc = "store"]
    /\ TokenFrame

\* Lines 198-207, one statement at a time while the other thread runs: the
\* access token and its time are stored (lines 199-200) and an answer without
\* refresh token ends the refresh (line 203); old_refresh_token =
\* self._refresh_token (line 204); self._refresh_token = the token of the
\* answer (line 205); self._refresh_token is read again and set_secret
\* follows when it differs from old_refresh_token (line 207).
TokenStore(x) ==
    /\ token.w[x].pc \in {"store", "old", "rotate", "compare"}
    /\ token' =
          IF token.w[x].pc = "store"
          THEN [token EXCEPT !.stale = FALSE,
                             !.w[x].pc = IF token.w[x].has_token
                                         THEN "old" ELSE "get"]
          ELSE IF token.w[x].pc = "old"
          THEN [token EXCEPT !.w[x].old = token.refresh_token,
                             !.w[x].pc = "rotate"]
          ELSE IF token.w[x].pc = "rotate"
          THEN [token EXCEPT !.refresh_token = token.w[x].resp,
                             !.w[x].pc = "compare"]
          ELSE [token EXCEPT
                   !.w[x].pc = IF token.refresh_token # token.w[x].old
                               THEN "persist" ELSE "get"]
    /\ TokenFrame

\* Line 209: set_secret("tado-refresh-token", self._refresh_token) is
\* called; its argument is the client's refresh token at the call.
TokenPersist(x) ==
    /\ token.w[x].pc = "persist"
    /\ token' = [token EXCEPT !.w[x].arg = token.refresh_token,
                              !.w[x].pc = "landing"]
    /\ TokenFrame

\* Lines 209-223: the secret store serves the set_secret request, or the
\* call raises and is logged; the read back of line 214 is logged only.
TokenPersistLands(x) ==
    /\ token.w[x].pc = "landing"
    /\ \E ok \in BOOLEAN :
          token' = IF ok
                   THEN [token EXCEPT !.vault = token.w[x].arg,
                                      !.w[x].pc = "get"]
                   ELSE [token EXCEPT !.w[x].pc = "get"]
    /\ TokenFrame

\* Lines 683-690: the dayReport request; get_day_report returns or raises.
TokenGet(x) ==
    /\ token.w[x].pc = "get"
    /\ token' = [token EXCEPT !.w[x].pc = "done"]
    /\ TokenFrame

NextRefresh ==
    \E x \in TokenWorkers :
       \/ TokenCheck(x)
       \/ TokenReadVault(x)
       \/ TokenAssign(x)
       \/ TokenParams(x)
       \/ TokenPost(x)
       \/ TokenStore(x)
       \/ TokenPersist(x)
       \/ TokenPersistLands(x)
       \/ TokenGet(x)

SpecRefresh == InitRefresh /\ [][NextRefresh]_vars

----------------------------------------------------------------------------
(* Shared client: properties *)

\* The worker is inside the refresh of _ensure_valid_token.
InRefresh(x) ==
    token.w[x].pc \in {"vault", "assign", "params", "post", "store", "old",
                        "rotate", "compare", "persist", "landing"}

\* No call of the client is in progress.
ClientAtRest == \A x \in TokenWorkers : token.w[x].pc \in {"idle", "done"}

\* C39: in the backfill worker pool, where all workers share one client
\* object, at most one access-token refresh is in progress at any time, no
\* worker refreshes with a refresh token that another worker's refresh has
\* already rotated, and after any interleaving of workers the refresh token
\* held by the client equals the one most recently issued by the vendor and
\* persisted to the secret store.
C39_SingleRefresh ==
    /\ Cardinality({x \in TokenWorkers : InRefresh(x)}) <= 1
    /\ ~token.rejected
    /\ ClientAtRest
       => /\ token.refresh_token = token.issued
          /\ token.vault = token.issued

\* What holds: while only one worker has called the client, no refresh is
\* refused and the client holds the refresh token issued last.
OneWorkerRefresh ==
    (\E x \in TokenWorkers : token.w[x] = NoTokenCall)
    => /\ ~token.rejected
       /\ ClientAtRest => token.refresh_token = token.issued

============================================================================
